---- MODULE Spec2Model ----
(***************************************************************************)
(* A model of smg-opengl: the scoped OpenGL state contexts, the triangle   *)
(* mesh, the off-screen frame buffer and the mesh renderer, over an        *)
(* explicit model of the part of the OpenGL state machine they drive.      *)
(*                                                                         *)
(* The OpenGL state is one record, gl.  Every gl* operator below maps a    *)
(* state record to the state after the call and appends the call's name    *)
(* to g.calls, the log of native calls issued by the handler in progress.  *)
(* A handler (a method the caller invokes) is one action: it starts from   *)
(* gl with an empty log and leaves the final state and its log in gl.      *)
(* The variable last records which handler ran last, the state it found    *)
(* (last.pre) and what it observed on the way.                             *)
(***************************************************************************)
EXTENDS Integers, Sequences, FiniteSets, TLC

VARIABLES
  gl,           \* the OpenGL state, and the log of the last handler
  ctx,          \* the with statements the caller has open, innermost last
  exc,          \* an exception is propagating
  meshes,       \* the mesh objects constructed so far
  vbos,         \* the number of VBO objects constructed so far
  fbs,          \* the OpenGLFrameBuffer objects no longer referred to and
                \* not yet finalised
  framebuffer,  \* OpenGLMeshRenderer.__framebuffer
  owned,        \* the textures, image renderers and frame buffers the
                \* caller has constructed and still refers to
  last          \* the last handler: its name, arguments, outcome, and the
                \* state it started from

vars == <<gl, ctx, exc, meshes, vbos, fbs, framebuffer, owned, last>>

(* ------------------------------ bounds -------------------------------- *)

\* Largest number of entries saved on the attribute stack and on each
\* matrix stack.
MaxStack == 2
\* Largest number of nested with statements the caller has open.
MaxCtx == 2
\* Caller-supplied matrices are 1..MaxMat (0 is the identity).
MaxMat == 1
\* Largest number of mesh objects the caller constructs.
MaxMeshes == 2
\* Largest number of native frame buffer objects in existence.
MaxFrameBuffers == 2
\* Largest number of OpenGLFrameBuffer objects awaiting their finaliser.
MaxGarbage == 1
\* Largest number of objects the caller refers to at a time.
MaxOwned == 2
\* Largest number of terminate() and __exit__ calls on one object.
MaxCalls == 2
\* The OpenGLTexture objects the caller has, with texture ids 1..MaxTextures.
MaxTextures == 1
\* Vertex, colour and normal arrays have 1..MaxRows rows.
MaxRows == 2
\* Image widths and heights are 1..MaxDim.
MaxDim == 2
\* The largest width and height of a window.
MaxWindow == 4
\* The largest focal length of a camera.
MaxFocal == 2
\* The bytes of the buffers read back start at 0 .. MaxBase.
MaxBase == 31

(* ------------------------- OpenGL constants --------------------------- *)

GL_PROJECTION == "GL_PROJECTION"
GL_MODELVIEW == "GL_MODELVIEW"
MatrixModes == {GL_PROJECTION, GL_MODELVIEW}

GL_ENABLE_BIT == "GL_ENABLE_BIT"
GL_LIGHTING_BIT == "GL_LIGHTING_BIT"
GL_DEPTH_BUFFER_BIT == "GL_DEPTH_BUFFER_BIT"
GL_COLOR_BUFFER_BIT == "GL_COLOR_BUFFER_BIT"

\* A capability is a pair <<name, index>>; the index tells the light slots
\* apart and is 0 for every other capability.
GL_LIGHTING == <<"GL_LIGHTING", 0>>
GL_COLOR_MATERIAL == <<"GL_COLOR_MATERIAL", 0>>
GL_CULL_FACE == <<"GL_CULL_FACE", 0>>
GL_DEPTH_TEST == <<"GL_DEPTH_TEST", 0>>
GL_TEXTURE_2D == <<"GL_TEXTURE_2D", 0>>
GL_SCISSOR_TEST == <<"GL_SCISSOR_TEST", 0>>
GL_BLEND == <<"GL_BLEND", 0>>

\* The number of hardware light slots, GL_LIGHT0 .. GL_LIGHT7.
NumLights == 8
LightSlots == 0 .. (NumLights - 1)
\* GL_LIGHT0 + i, as a capability name.
GL_LIGHT(i) == <<"GL_LIGHT", i>>
LightCaps == {GL_LIGHT(i) : i \in LightSlots}

GL_LESS == "GL_LESS"
GL_LEQUAL == "GL_LEQUAL"
GL_ALWAYS == "GL_ALWAYS"
GL_BACK == "GL_BACK"

GL_VERTEX_ARRAY == "GL_VERTEX_ARRAY"
GL_COLOR_ARRAY == "GL_COLOR_ARRAY"
GL_NORMAL_ARRAY == "GL_NORMAL_ARRAY"

\* The capabilities whose enable flags the lighting group saves.
LightingGroupCaps == {GL_LIGHTING, GL_COLOR_MATERIAL} \cup LightCaps
\* The capabilities whose enable flags the depth-buffer group saves.
DepthGroupCaps == {GL_DEPTH_TEST}
\* The capabilities whose enable flags the colour-buffer group saves.
ColourGroupCaps == {GL_BLEND}


(* ------------------------- the OpenGL state --------------------------- *)

Identity == 0
\* A light's parameters before any glLightfv call on it.
DefaultLight == [position |-> 0, white |-> FALSE]

InitGL ==
  [ calls        |-> <<>>,
    matrixMode   |-> GL_MODELVIEW,
    stack        |-> [m \in MatrixModes |-> <<Identity>>],
    attribStack  |-> <<>>,
    enabled      |-> {},
    depthFunc    |-> GL_LESS,
    cullFaceMode |-> GL_BACK,
    light        |-> [i \in LightSlots |-> DefaultLight],
    clientStates |-> {},
    arrayBuffer  |-> 0,
    elementBuffer |-> 0,
    texture      |-> 0,
    drawFramebuffer |-> 0,
    renderbuffer |-> 0,
    textureNames |-> 1 .. MaxTextures,
    quadricNames |-> {},
    renderbufferNames |-> {},
    framebufferNames |-> {},
    viewport     |-> <<0, 0, 0, 0>>,
    scissorBox   |-> <<0, 0, 0, 0>>,
    clearColor   |-> "black",
    drawn        |-> <<>> ]

\* The state itself, without the handler's log: g.calls, the native calls
\* issued so far, and g.drawn, the state found by each draw call.
State(g) == [g EXCEPT !.calls = <<>>, !.drawn = <<>>]

Call(g, name) == [g EXCEPT !.calls = Append(@, name)]

\* Sequencing: the value of e, then F of that value.  (The set forces e to
\* a value before F is applied to it.)
Then(e, F(_)) == CHOOSE y \in {F(x) : x \in {e}} : TRUE

Range(s) == {s[i] : i \in DOMAIN s}
Top(s) == s[Len(s)]
Pop(s) == SubSeq(s, 1, Len(s) - 1)

glEnable(g, c) ==
  Call([g EXCEPT !.enabled = @ \cup {c}], "glEnable")

glDisable(g, c) ==
  Call([g EXCEPT !.enabled = @ \ {c}], "glDisable")

IsEnabled(g, c) == c \in g.enabled

\* glLightfv(light, GL_DIFFUSE, ones); glLightfv(light, GL_SPECULAR, ones)
glLightWhite(g, i) ==
  Call(Call([g EXCEPT !.light[i].white = TRUE], "glLightfv"), "glLightfv")

\* glLightfv(light, GL_POSITION, p)
glLightPosition(g, i, p) ==
  Call([g EXCEPT !.light[i].position = p], "glLightfv")

glCullFace(g, mode) == Call([g EXCEPT !.cullFaceMode = mode], "glCullFace")

glDepthFunc(g, f) == Call([g EXCEPT !.depthFunc = f], "glDepthFunc")

\* What glPushAttrib(mask) saves: the groups named by mask, taken from g.
Saved(g, mask) ==
  [ mask |-> mask, enabled |-> g.enabled, depthFunc |-> g.depthFunc,
    light |-> g.light ]

glPushAttrib(g, mask) ==
  Call([g EXCEPT !.attribStack = Append(@, Saved(g, mask))], "glPushAttrib")

\* The enable flags after restoring s: GL_ENABLE_BIT restores every flag,
\* the other groups only their own.
RestoredEnabled(g, s) ==
  LET caps == IF GL_ENABLE_BIT \in s.mask
                THEN g.enabled \cup s.enabled
                ELSE (IF GL_LIGHTING_BIT \in s.mask THEN LightingGroupCaps ELSE {})
                     \cup (IF GL_DEPTH_BUFFER_BIT \in s.mask THEN DepthGroupCaps ELSE {})
                     \cup (IF GL_COLOR_BUFFER_BIT \in s.mask THEN ColourGroupCaps ELSE {})
  IN  (g.enabled \ caps) \cup (s.enabled \cap caps)

Restore(g, s) ==
  [g EXCEPT !.enabled = RestoredEnabled(g, s),
            !.depthFunc = IF GL_DEPTH_BUFFER_BIT \in s.mask THEN s.depthFunc ELSE @,
            !.light = IF GL_LIGHTING_BIT \in s.mask THEN s.light ELSE @]

glPopAttrib(g) ==
  IF g.attribStack = <<>>
    THEN Call(g, "glPopAttrib")
    ELSE Call([Restore(g, Top(g.attribStack))
                 EXCEPT !.attribStack = Pop(g.attribStack)], "glPopAttrib")

glMatrixMode(g, mode) == Call([g EXCEPT !.matrixMode = mode], "glMatrixMode")

\* The current matrix of a mode is the top of that mode's stack.
CurrentMatrix(g, mode) == Top(g.stack[mode])
\* The number of matrices saved on a mode's stack, below the current one.
Depth(g, mode) == Len(g.stack[mode]) - 1

glPushMatrix(g) ==
  Call([g EXCEPT !.stack[g.matrixMode] = Append(@, Top(@))], "glPushMatrix")

glPopMatrix(g) ==
  IF Len(g.stack[g.matrixMode]) <= 1
    THEN Call(g, "glPopMatrix")
    ELSE Call([g EXCEPT !.stack[g.matrixMode] = Pop(@)], "glPopMatrix")

\* glLoadMatrixf, glLoadIdentity + glFrustum: replace the current matrix.
glLoadMatrix(g, m) ==
  Call([g EXCEPT !.stack[g.matrixMode] = Append(Pop(@), m)], "glLoadMatrixf")

glLoadIdentity(g) ==
  Call([g EXCEPT !.stack[g.matrixMode] = Append(Pop(@), Identity)], "glLoadIdentity")

\* Matrices are numbers; the product of two of them, neither the identity,
\* is a number beyond MatBase * MatBase that tells both factors.
MatBase == 1000
Product(a, b) ==
  IF a = Identity THEN b
  ELSE IF b = Identity THEN a
  ELSE MatBase * MatBase + a * MatBase + b

\* glMultMatrixf, glFrustum, glOrtho, glTranslated, glScaled: multiply the
\* current matrix by m.
glMultMatrix(g, m, name) ==
  Call([g EXCEPT !.stack[g.matrixMode] = Append(Pop(@), Product(Top(@), m))], name)

glBindTexture(g, texture_id) ==
  Call([g EXCEPT !.texture = texture_id], "glBindTexture")

\* glGenTextures(1), glGenRenderbuffers(1), glGenFramebuffers(1): a name
\* not in use, here the least one.
GenName(names) ==
  CHOOSE n \in 1 .. (Cardinality(names) + 1) :
    n \notin names /\ \A m \in 1 .. (n - 1) : m \in names

glGenTextures(g, name) ==
  Call([g EXCEPT !.textureNames = @ \cup {name}], "glGenTextures")
glGenRenderbuffers(g, name) ==
  Call([g EXCEPT !.renderbufferNames = @ \cup {name}], "glGenRenderbuffers")
glGenFramebuffers(g, name) ==
  Call([g EXCEPT !.framebufferNames = @ \cup {name}], "glGenFramebuffers")

glBindRenderbuffer(g, name) ==
  Call([g EXCEPT !.renderbuffer = name], "glBindRenderbuffer")
glBindFramebuffer(g, name) ==
  Call([g EXCEPT !.drawFramebuffer = name], "glBindFramebuffer")

\* Deleting a bound object reverts the binding to 0.
glDeleteTextures(g, name) ==
  Call([g EXCEPT !.textureNames = @ \ {name},
                 !.texture = IF @ = name THEN 0 ELSE @], "glDeleteTextures")
glDeleteRenderbuffers(g, name) ==
  Call([g EXCEPT !.renderbufferNames = @ \ {name},
                 !.renderbuffer = IF @ = name THEN 0 ELSE @], "glDeleteRenderbuffers")
glDeleteFramebuffers(g, name) ==
  Call([g EXCEPT !.framebufferNames = @ \ {name},
                 !.drawFramebuffer = IF @ = name THEN 0 ELSE @], "glDeleteFramebuffers")

glViewport(g, x, y, w, h) == Call([g EXCEPT !.viewport = <<x, y, w, h>>], "glViewport")
glScissor(g, x, y, w, h) == Call([g EXCEPT !.scissorBox = <<x, y, w, h>>], "glScissor")
glClearColor(g, c) == Call([g EXCEPT !.clearColor = c], "glClearColor")

glEnableClientState(g, a) ==
  Call([g EXCEPT !.clientStates = @ \cup {a}], "glEnableClientState")

glDisableClientState(g, a) ==
  Call([g EXCEPT !.clientStates = @ \ {a}], "glDisableClientState")

\* VBO.bind() / VBO.unbind() of the vertex buffer and of the index buffer
\* (target GL_ELEMENT_ARRAY_BUFFER).
BindArrayBuffer(g, b) == Call([g EXCEPT !.arrayBuffer = b], "glBindBuffer")
BindElementBuffer(g, b) == Call([g EXCEPT !.elementBuffer = b], "glBindBuffer")

\* glDrawElements: the draw call sees the state it is issued in.
glDrawElements(g) ==
  Call([g EXCEPT !.drawn = Append(@, State(g))], "glDrawElements")

(* ------------------------------ the mesh ------------------------------ *)

float64 == "float64"
float32 == "float32"
DTypes == {float64, float32}

\* A variant of np.concatenate that accepts arrays of any numbers of rows.
ConcatenateUnchecked(rows) ==
  [error |-> "", rows |-> rows[1]]

\* np.concatenate(arrays, axis=1) of two-dimensional arrays, each given by
\* its number of rows: the result's number of rows, or the ValueError
\* raised when the arrays disagree.
Concatenate(rows) ==
  IF \A i, j \in DOMAIN rows : rows[i] = rows[j]
    THEN [error |-> "", rows |-> rows[1]]
    ELSE [error |-> "ValueError", rows |-> 0]

\* An array argument is [dtype, rows]; NoArray is None passed for
\* vertex_normals.
Arrays == [dtype : DTypes, rows : 1 .. MaxRows]
NoArray == [dtype |-> "NoneType", rows |-> 0]

\* OpenGLTriMesh.__init__ / TriangleMesh.__init__: the error raised, or
\* "ok" with the mesh constructed.  nvbo is the number of VBO objects the
\* constructor created before it returned or raised.
MeshInit(vertices, vertex_colours, vertex_normals) ==
  IF vertices.dtype # float64 \/ vertex_colours.dtype # float64
    THEN [result |-> "RuntimeError", use_normals |-> FALSE, nvbo |-> 0]
  ELSE LET use_normals == vertex_normals # NoArray IN
    IF use_normals
      THEN IF vertex_normals.dtype # float64
             THEN [result |-> "RuntimeError", use_normals |-> TRUE, nvbo |-> 0]
           ELSE IF Concatenate(<<vertices.rows, vertex_colours.rows,
                                 vertex_normals.rows>>).error # ""
             THEN [result |-> "ValueError", use_normals |-> TRUE, nvbo |-> 0]
           ELSE [result |-> "ok", use_normals |-> TRUE, nvbo |-> 2]
      ELSE IF Concatenate(<<vertices.rows, vertex_colours.rows>>).error # ""
             THEN [result |-> "ValueError", use_normals |-> FALSE, nvbo |-> 0]
           ELSE [result |-> "ok", use_normals |-> FALSE, nvbo |-> 2]

\* The calls of the try block of render(), in order.
MeshRenderSteps(mesh) ==
  IF mesh.use_normals
    THEN << "vbo.bind", "ibo.bind", "enableVertex", "enableColor", "enableNormal",
            "glVertexPointer", "glColorPointer", "glNormalPointer", "glDrawElements" >>
    ELSE << "vbo.bind", "ibo.bind", "enableVertex", "enableColor",
            "glVertexPointer", "glColorPointer", "glDrawElements" >>

MeshRenderStep(g, mesh, step) ==
  CASE step = "vbo.bind"       -> BindArrayBuffer(g, mesh.vbo)
    [] step = "ibo.bind"       -> BindElementBuffer(g, mesh.ibo)
    [] step = "enableVertex"   -> glEnableClientState(g, GL_VERTEX_ARRAY)
    [] step = "enableColor"    -> glEnableClientState(g, GL_COLOR_ARRAY)
    [] step = "enableNormal"   -> glEnableClientState(g, GL_NORMAL_ARRAY)
    [] step = "glDrawElements" -> glDrawElements(g)
    [] OTHER                   -> Call(g, step)

\* The first n calls of the try block.
RECURSIVE MeshRenderTry(_, _, _)
MeshRenderTry(g, mesh, n) ==
  IF n = 0 THEN g
  ELSE MeshRenderStep(MeshRenderTry(g, mesh, n - 1), mesh, MeshRenderSteps(mesh)[n])

\* A variant of the finally block that leaves the normal stream enabled.
MeshRenderFinallyKeepsNormals(g, mesh) ==
  LET g2 == glDisableClientState(g, GL_COLOR_ARRAY)
      g3 == glDisableClientState(g2, GL_VERTEX_ARRAY)
      g4 == BindElementBuffer(g3, 0)
  IN  BindArrayBuffer(g4, 0)

\* The finally block of render().
MeshRenderFinally(g, mesh) ==
  LET g1 == IF mesh.use_normals THEN glDisableClientState(g, GL_NORMAL_ARRAY) ELSE g
      g2 == glDisableClientState(g1, GL_COLOR_ARRAY)
      g3 == glDisableClientState(g2, GL_VERTEX_ARRAY)
      g4 == BindElementBuffer(g3, 0)
  IN  BindArrayBuffer(g4, 0)

\* OpenGLTriMesh.render / TriangleMesh.render.  fail = 0: no call raises;
\* fail = k: the k-th call of the try block raises (a GLError), having had
\* no effect.
MeshRender(g, mesh, fail) ==
  LET n == IF fail = 0 THEN Len(MeshRenderSteps(mesh)) ELSE fail - 1
  IN  Then(MeshRenderTry(g, mesh, n),
           LAMBDA t : [g |-> MeshRenderFinally(t, mesh), raised |-> fail # 0])

\* The failure points of a mesh's render().
MeshFails(mesh) == 0 .. Len(MeshRenderSteps(mesh))

(* ---------------------------- the renderer ---------------------------- *)

\* light_dirs: None, or a list of directions.  A direction is a non-zero
\* integer and -d is the opposite direction.
NoDirs == [none |-> TRUE, dirs |-> <<>>]
Dirs(k) == [none |-> FALSE, dirs |-> [i \in 1 .. k |-> 10 + i]]
\* pos of OpenGLMeshRenderer.render's default lighting.
DefaultPos == 1

\* A variant of the loop of render() that sets up the first light only.
SetUpFirstLight(g, dirs, n) ==
  IF n = 0 THEN g
  ELSE glLightPosition(glLightWhite(glEnable(g, GL_LIGHT(0)), 0), 0, dirs[1])

\* The loop of render() over the first n light directions.
RECURSIVE SetUpLights(_, _, _)
SetUpLights(g, dirs, n) ==
  IF n = 0 THEN g
  ELSE LET g0 == SetUpLights(g, dirs, n - 1)
           i == n - 1
           g1 == glEnable(g0, GL_LIGHT(i))
           g2 == glLightWhite(g1, i)
       IN  glLightPosition(g2, i, dirs[n])

RenderMask == {GL_DEPTH_BUFFER_BIT, GL_ENABLE_BIT, GL_LIGHTING_BIT}

\* mesh.render() is the last call but one of render(): when it raises,
\* render() is left at once.
RenderMesh(g, mesh, fail) ==
  Then(MeshRender(g, mesh, fail),
       LAMBDA r : IF r.raised THEN r ELSE [g |-> glPopAttrib(r.g), raised |-> FALSE])

\* A variant of the check of render() that allows for 7 lights only.
TooManyLightsOffByOne(light_dirs) ==
  ~light_dirs.none /\ Len(light_dirs.dirs) >= NumLights

\* The elif of render(): a list of more than 8 light directions.
TooManyLights(light_dirs) ==
  ~light_dirs.none /\ Len(light_dirs.dirs) > NumLights

\* OpenGLMeshRenderer.render(mesh, light_dirs=light_dirs), where fail is
\* the failure point of mesh.render().
Render(g, mesh, light_dirs, fail) ==
  IF TooManyLights(light_dirs)
    THEN [g |-> g, raised |-> TRUE]
  ELSE
    LET dirs == IF light_dirs.none THEN <<DefaultPos, -DefaultPos>> ELSE light_dirs.dirs
        g1 == glPushAttrib(g, RenderMask)
        g2 == glEnable(g1, GL_LIGHTING)
        g3 == SetUpLights(g2, dirs, Len(dirs))
        g4 == glEnable(g3, GL_COLOR_MATERIAL)
        g5 == glCullFace(g4, GL_BACK)
        g6 == glEnable(g5, GL_CULL_FACE)
        g7 == glDepthFunc(g6, GL_LEQUAL)
        g8 == glEnable(g7, GL_DEPTH_TEST)
    IN  Then(g8, LAMBDA x : RenderMesh(x, mesh, fail))

\* The lists of light directions the caller passes: None, and lists of
\* 0, 1, 8 and 9 directions.
LightDirInputs == {NoDirs} \cup {Dirs(k) : k \in {0, 1, NumLights, NumLights + 1}}

\* The failure point of mesh.render() when its draw call raises (f), and
\* when no call does.
DrawFails(mesh, f) == IF f THEN Len(MeshRenderSteps(mesh)) ELSE 0

(* ------------------------- the scoped contexts ------------------------ *)

\* change_matrix: a callable that loads matrix m (OpenGLUtil.load_matrix,
\* OpenGLUtil.set_projection_matrix), or one that raises before it has
\* issued a call (np.linalg.inv of a singular pose).
ChangeMatrices == [raises : BOOLEAN, m : 1 .. MaxMat]

ChangeMatrix(g, change_matrix) ==
  IF change_matrix.raises
    THEN [g |-> g, raised |-> TRUE]
    ELSE [g |-> glLoadMatrix(g, change_matrix.m), raised |-> FALSE]

\* OpenGLMatrixContext.__enter__
MatrixEnter(g, matrix_mode, change_matrix) ==
  LET g1 == glMatrixMode(g, matrix_mode)
      g2 == glPushMatrix(g1)
  IN  ChangeMatrix(g2, change_matrix)

\* OpenGLMatrixContext.__exit__
MatrixExit(g, matrix_mode) ==
  LET g1 == glMatrixMode(g, matrix_mode)
  IN  glPopMatrix(g1)

\* DirectionalLight.enable(light_id): the position is the negated
\* direction.  A light whose direction is bad raises in the last call.
LightEnable(g, i, light) ==
  LET g1 == glEnable(g, GL_LIGHT(i))
      g2 == glLightWhite(g1, i)
  IN  IF light.bad
        THEN [g |-> g2, raised |-> TRUE]
        ELSE [g |-> glLightPosition(g2, i, -light.direction), raised |-> FALSE]

\* The loop of OpenGLLightingContext.__enter__ from slot i on: lights.get(i)
\* for i in range(8).
RECURSIVE EnableLights(_, _, _)
EnableLights(g, lights, i) ==
  IF i = NumLights THEN [g |-> g, raised |-> FALSE]
  ELSE IF i \notin DOMAIN lights THEN EnableLights(g, lights, i + 1)
  ELSE Then(LightEnable(g, i, lights[i]),
            LAMBDA r : IF r.raised THEN r ELSE EnableLights(r.g, lights, i + 1))

\* OpenGLLightingContext.__enter__
LightingEnter(g, lights) ==
  LET g1 == glPushAttrib(g, {GL_ENABLE_BIT, GL_LIGHTING_BIT})
      g2 == glEnable(g1, GL_COLOR_MATERIAL)
      g3 == glEnable(g2, GL_LIGHTING)
  IN  Then(g3, LAMBDA x : EnableLights(x, lights, 0))

\* OpenGLLightingContext.__exit__
LightingExit(g) == glPopAttrib(g)

\* OpenGLDepthTestContext.__enter__
DepthTestEnter(g, depth_func) ==
  LET g1 == glPushAttrib(g, {GL_DEPTH_BUFFER_BIT})
      g2 == glDepthFunc(g1, depth_func)
  IN  [g |-> glEnable(g2, GL_DEPTH_TEST), raised |-> FALSE]

\* OpenGLDepthTestContext.__exit__
DepthTestExit(g) == glPopAttrib(g)

\* OpenGLTexture.bind / unbind
TextureBind(g, texture_id) == glBindTexture(g, texture_id)
TextureUnbind(g) == glBindTexture(g, 0)

\* OpenGLTextureContext.__enter__
TextureEnter(g, texture_id) ==
  LET g1 == glPushAttrib(g, {GL_ENABLE_BIT})
      g2 == glEnable(g1, GL_TEXTURE_2D)
  IN  [g |-> TextureBind(g2, texture_id), raised |-> FALSE]

\* OpenGLTextureContext.__exit__
TextureExit(g) ==
  LET g1 == TextureUnbind(g)
  IN  glPopAttrib(g1)

\* A context object: its class and its constructor's argument.
MatrixContexts ==
  [kind : {"matrix"}, matrix_mode : MatrixModes, arg : ChangeMatrices]

\* The lights mappings the caller passes: keys among 0 and 8, each a
\* directional light; the light of key 0 may have a bad direction.
LightKeys == {0, NumLights}
LightMaps ==
  UNION { { [k \in K |-> [direction |-> 20 + k, bad |-> (k = b)]] : b \in {0, -1} }
          : K \in SUBSET LightKeys }
LightingContexts == [kind : {"lighting"}, matrix_mode : {"-"}, arg : LightMaps]

DepthFuncs == {GL_LEQUAL, GL_ALWAYS}
DepthTestContexts == [kind : {"depth"}, matrix_mode : {"-"}, arg : DepthFuncs]

TextureContexts == [kind : {"texture"}, matrix_mode : {"-"}, arg : 1 .. MaxTextures]

\* The contexts that save their state on the attribute stack.
AttribContexts == LightingContexts \cup DepthTestContexts \cup TextureContexts

\* OpenGLFrameBuffer.__enter__ / __exit__
FrameBufferEnter(g, self) == glBindFramebuffer(g, self.id)
FrameBufferExitKeepsTarget(g) == g
FrameBufferExit(g) == glBindFramebuffer(g, 0)

\* c.__enter__()
Enter(g, c) ==
  CASE c.kind = "matrix"   -> MatrixEnter(g, c.matrix_mode, c.arg)
    [] c.kind = "lighting" -> LightingEnter(g, c.arg)
    [] c.kind = "depth"    -> DepthTestEnter(g, c.arg)
    [] c.kind = "texture"  -> TextureEnter(g, c.arg)
    [] c.kind = "framebuffer" -> [g |-> FrameBufferEnter(g, c.arg), raised |-> FALSE]

\* c.__exit__(...)
Exit(g, c) ==
  CASE c.kind = "matrix"   -> MatrixExit(g, c.matrix_mode)
    [] c.kind = "lighting" -> LightingExit(g)
    [] c.kind = "depth"    -> DepthTestExit(g)
    [] c.kind = "texture"  -> TextureExit(g)
    [] c.kind = "framebuffer" -> FrameBufferExit(g)

\* The stack __enter__ pushes on has room for one more entry.
Room(g, c) ==
  IF c.kind = "matrix" THEN Depth(g, c.matrix_mode) < MaxStack
  ELSE IF c.kind = "framebuffer" THEN TRUE
  ELSE Len(g.attribStack) < MaxStack


(* --------------------------- the frame buffer ------------------------- *)

\* None, where an OpenGLFrameBuffer is expected.
None ==
  [alive |-> FALSE, width |-> 0, height |-> 0,
   colour_buffer_id |-> 0, depth_buffer_id |-> 0, id |-> 0]

\* OpenGLFrameBuffer.__init__(width, height).  complete is the outcome of
\* glCheckFramebufferStatus.  The result holds the object as the
\* constructor leaves it, whether it returns or raises.
FrameBufferInit(g, width, height, complete) ==
  LET colour_buffer_id == GenName(g.textureNames)
      depth_buffer_id == GenName(g.renderbufferNames)
      id == GenName(g.framebufferNames)
      g1 == glGenTextures(g, colour_buffer_id)
      g2 == glBindTexture(g1, colour_buffer_id)
      g3 == Call(Call(Call(g2, "glTexImage2D"), "glTexParameteri"), "glTexParameteri")
      g4 == glGenRenderbuffers(g3, depth_buffer_id)
      g5 == glBindRenderbuffer(g4, depth_buffer_id)
      g6 == Call(g5, "glRenderbufferStorage")
      g7 == glGenFramebuffers(g6, id)
      g8 == glBindFramebuffer(g7, id)
      g9 == Call(Call(g8, "glFramebufferTexture2D"), "glFramebufferRenderbuffer")
      g10 == Call(g9, "glCheckFramebufferStatus")
      self == [alive |-> FALSE, width |-> width, height |-> height,
               colour_buffer_id |-> colour_buffer_id,
               depth_buffer_id |-> depth_buffer_id, id |-> id]
  IN  IF ~complete
        THEN [g |-> g10, self |-> self, raised |-> TRUE]
        ELSE [g |-> glBindFramebuffer(g10, 0),
              self |-> [self EXCEPT !.alive = TRUE], raised |-> FALSE]

\* The try block of OpenGLFrameBuffer.terminate.  err = 0: no delete
\* raises; err = k: the k-th delete raises an Error, having had no effect,
\* and the except clause swallows it.
FrameBufferDeletes(g, self, err) ==
  LET g1 == IF err = 1 THEN g ELSE glDeleteRenderbuffers(g, self.depth_buffer_id)
      g2 == IF err \in {1, 2} THEN g1 ELSE glDeleteTextures(g1, self.colour_buffer_id)
  IN  IF err \in {1, 2, 3} THEN g2 ELSE glDeleteFramebuffers(g2, self.id)

\* A variant of terminate that does not look at the alive flag.
FrameBufferTerminateAlways(g, self, err) ==
  [g |-> FrameBufferDeletes(g, self, err), self |-> [self EXCEPT !.alive = FALSE]]

\* OpenGLFrameBuffer.terminate
FrameBufferTerminate(g, self, err) ==
  IF self.alive
    THEN [g |-> FrameBufferDeletes(g, self, err), self |-> [self EXCEPT !.alive = FALSE]]
    ELSE [g |-> g, self |-> self]

\* The points at which terminate()'s deletes may raise.
DeleteErrors == 0 .. 3

(* ------------------- textures and the image renderer ----------------- *)

\* The matrices of begin_2d(): glOrtho(0, 1, 0, 1, 0, 1),
\* glTranslated(0, 1, 0) and glScaled(1, -1, 1).
OrthoMatrix == 300
TranslateMatrix == 301
ScaleMatrix == 302

\* OpenGLUtil.begin_2d
Begin2D(g) ==
  LET g1 == glPushMatrix(glMatrixMode(g, GL_PROJECTION))
      g2 == glMultMatrix(glLoadIdentity(g1), OrthoMatrix, "glOrtho")
      g3 == glPushMatrix(glMatrixMode(g2, GL_MODELVIEW))
      g4 == glMultMatrix(glLoadIdentity(g3), TranslateMatrix, "glTranslated")
      g5 == glMultMatrix(g4, ScaleMatrix, "glScaled")
  IN  Call(g5, "glDepthMask")

\* OpenGLUtil.end_2d
End2D(g) ==
  LET g1 == Call(g, "glDepthMask")
      g2 == glPopMatrix(glMatrixMode(g1, GL_MODELVIEW))
  IN  glPopMatrix(glMatrixMode(g2, GL_PROJECTION))

\* OpenGLUtil.render_textured_quad(texture_id): the quad is drawn between
\* glBegin and glEnd.
RenderTexturedQuad(g, texture_id) ==
  LET g1 == glEnable(g, GL_TEXTURE_2D)
      g2 == Call(glBindTexture(g1, texture_id), "glColor3f")
      g3 == Call([g2 EXCEPT !.drawn = Append(@, State(g2))], "glBegin")
  IN  glDisable(Call(g3, "glEnd"), GL_TEXTURE_2D)

\* The copy of an image to the bound texture, as set_image and render_image
\* do it: the upload if the image has 3 or 4 channels, then the four
\* texture parameters.
CopyImage(g, channels) ==
  LET g1 == IF channels = 3 \/ channels = 4 THEN Call(g, "glTexImage2D") ELSE g
  IN  Call(Call(Call(Call(g1, "glTexParameteri"), "glTexParameteri"),
                "glTexParameteri"), "glTexParameteri")

\* OpenGLTexture.__init__ / OpenGLImageRenderer.__init__
TextureInit(g) ==
  LET texture_id == GenName(g.textureNames)
  IN  [g |-> glGenTextures(g, texture_id),
       self |-> [alive |-> TRUE, texture_id |-> texture_id]]

\* OpenGLTexture.set_image(image), image having the given number of
\* channels.
SetImage(g, channels) == [g |-> CopyImage(g, channels), raised |-> FALSE]

\* OpenGLTexture.terminate.  err = 1: glDeleteTextures raises an Error,
\* which is suppressed.
TextureTerminate(g, self, err) ==
  IF self.alive
    THEN [g |-> IF err = 0 THEN glDeleteTextures(g, self.texture_id) ELSE g,
          self |-> [self EXCEPT !.alive = FALSE], raised |-> FALSE]
    ELSE [g |-> g, self |-> self, raised |-> FALSE]

\* OpenGLImageRenderer.terminate.  err = 1: glDeleteTextures raises an
\* Error, which propagates before the object is marked.
ImageRendererTerminate(g, self, err) ==
  IF self.alive
    THEN IF err = 0
           THEN [g |-> glDeleteTextures(g, self.texture_id),
                 self |-> [self EXCEPT !.alive = FALSE], raised |-> FALSE]
           ELSE [g |-> g, self |-> self, raised |-> TRUE]
    ELSE [g |-> g, self |-> self, raised |-> FALSE]

\* OpenGLImageRenderer.render_image(image, use_alpha_blending).  Its last
\* call passes glPopAttrib an argument the function does not take:
\* pop_raises tells whether the binding rejects the call or ignores the
\* argument.
RenderImage(g, self, channels, use_alpha_blending, pop_raises) ==
  LET blend == use_alpha_blending /\ channels = 4
      g1 == CopyImage(glBindTexture(g, self.texture_id), channels)
      g2 == IF blend
              THEN Call(glEnable(glPushAttrib(g1, {GL_COLOR_BUFFER_BIT}), GL_BLEND),
                        "glBlendFunc")
              ELSE g1
  IN  Then(g2, LAMBDA x :
      Then(End2D(RenderTexturedQuad(Begin2D(x), self.texture_id)), LAMBDA g3 :
        IF ~blend THEN [g |-> g3, raised |-> FALSE]
        ELSE IF pop_raises THEN [g |-> g3, raised |-> TRUE]
        ELSE [g |-> glPopAttrib(g3), raised |-> FALSE]))

(* ------------------------- viewport and matrices ---------------------- *)

\* Fractions of the window are counted in quarters: n stands for n/4.
FracDen == 4
Fractions == 0 .. FracDen

\* int(x) of Python, Trunc here, for x = p/q, q > 0: truncation towards zero.
Trunc(p, q) == IF p >= 0 THEN p \div q ELSE -((-p) \div q)

\* A variant of np.round that rounds a tie up.
RoundHalfUp(p, q) == (2 * p + q) \div (2 * q)

\* np.round(x) for x = p/q, q > 0: to the nearest integer, a tie to the
\* even one.
RoundAbs(p, q) ==
  LET f == p \div q
      r == p % q
  IN  IF 2 * r < q THEN f
      ELSE IF 2 * r > q THEN f + 1
      ELSE IF f % 2 = 0 THEN f ELSE f + 1
Round(p, q) == IF p >= 0 THEN RoundAbs(p, q) ELSE -RoundAbs(-p, q)

\* A variant of set_viewport that leaves the scissor box alone.
SetViewportOnly(g, top_left, bottom_right, window_size) ==
  LET left == Trunc(Round(top_left[1] * window_size[1], FracDen), 1)
      top == Trunc(Round((FracDen - bottom_right[2]) * window_size[2], FracDen), 1)
      width == Trunc((bottom_right[1] - top_left[1]) * window_size[1], FracDen)
      height == Trunc((bottom_right[2] - top_left[2]) * window_size[2], FracDen)
  IN  glEnable(glViewport(g, left, top, width, height), GL_SCISSOR_TEST)

\* OpenGLUtil.set_viewport(top_left, bottom_right, window_size)
SetViewport(g, top_left, bottom_right, window_size) ==
  LET left == Trunc(Round(top_left[1] * window_size[1], FracDen), 1)
      top == Trunc(Round((FracDen - bottom_right[2]) * window_size[2], FracDen), 1)
      width == Trunc((bottom_right[1] - top_left[1]) * window_size[1], FracDen)
      height == Trunc((bottom_right[2] - top_left[2]) * window_size[2], FracDen)
      g1 == glViewport(g, left, top, width, height)
      g2 == glScissor(g1, left, top, width, height)
  IN  glEnable(g2, GL_SCISSOR_TEST)

\* The matrix OpenGLUtil.set_projection_matrix(intrinsics, width, height)
\* loads, and the one CameraPoseConverter.pose_to_modelview gives for the
\* camera pose: matrices other than the caller's 0..MaxMat.
ProjectionMatrix(width, height) == 100 + 10 * width + height
ModelviewMatrix == 200

\* near_val and far_val of set_projection_matrix, in tenths.
NearVal == 1
FarVal == 10000

\* The focal lengths fx and fy are 1 .. MaxFocal.  The planes of the
\* frustum are counted in units of near_val / FocalScale, which every
\* focal length divides.
RECURSIVE Factorial(_)
Factorial(n) == IF n <= 1 THEN 1 ELSE n * Factorial(n - 1)
FocalScale == Factorial(MaxFocal)

\* left_val, right_val, bottom_val and top_val of set_projection_matrix.
Frustum(intrinsics, width, height) ==
  LET fx == intrinsics[1]
      fy == intrinsics[2]
      cx == intrinsics[3]
      cy == intrinsics[4]
  IN  [left   |-> (-cx * FocalScale) \div fx,
       right  |-> ((width - cx) * FocalScale) \div fx,
       bottom |-> (-cy * FocalScale) \div fy,
       top    |-> ((height - cy) * FocalScale) \div fy,
       near   |-> NearVal,
       far    |-> FarVal]

\* The matrix of glFrustum(left, right, bottom, top, near, far): one matrix
\* for each choice of the four planes, apart from every other matrix of
\* the model (near and far are the same in every call).
FrustumBase == 3000000
FrustumSpan == (MaxDim + 2) * FocalScale
FrustumMatrix(f) ==
  LET b == 2 * FrustumSpan + 1
      d(x) == x + FrustumSpan
  IN  FrustumBase + ((d(f.left) * b + d(f.right)) * b + d(f.bottom)) * b + d(f.top)

\* A variant of set_projection_matrix that multiplies the current matrix
\* by the frustum.
SetProjectionMatrixOnTop(g, intrinsics, width, height) ==
  glMultMatrix(g, FrustumMatrix(Frustum(intrinsics, width, height)), "glFrustum")

\* OpenGLUtil.set_projection_matrix(intrinsics, width, height)
SetProjectionMatrix(g, intrinsics, width, height) ==
  LET g1 == glLoadIdentity(g)
  IN  glMultMatrix(g1, FrustumMatrix(Frustum(intrinsics, width, height)), "glFrustum")

\* OpenGLUtil.read_bgr_image: glReadPixels sees the state it is issued in.
ReadBgrImage(g) == Call([g EXCEPT !.drawn = Append(@, State(g))], "glReadPixels")

\* What glReadPixels returns: width * height * 3 bytes, the bottom row of
\* the picture first.  Byte i of a buffer is (base + i) % 256, so that
\* the bytes of a buffer differ from each other.
Buffers(width, height) ==
  {[i \in 1 .. width * height * 3 |-> (base + i) % 256] : base \in 0 .. MaxBase}

\* np.frombuffer(buffer, dtype=np.uint8).reshape((height, width, 3)): the
\* array whose element [r][c][k] (from 1) is byte ((r-1) width + c-1) 3 + k.
Reshape(buffer, height, width) ==
  [r \in 1 .. height |->
    [c \in 1 .. width |->
      [k \in 1 .. 3 |-> buffer[((r - 1) * width + (c - 1)) * 3 + k]]]]

\* A variant of the slice that keeps the order of the rows.
KeepRows(image) == image

\* image[::-1, :]: the rows in reverse order.
FlipRows(image) ==
  [r \in 1 .. Len(image) |-> image[Len(image) + 1 - r]]

\* The array read_bgr_image(width, height) returns when glReadPixels
\* returns buffer.
BgrImage(buffer, width, height) == FlipRows(Reshape(buffer, height, width))

(* ------------------------- spheres and cylinders ---------------------- *)

\* A GLU quadric is the name of a native object; quadricNames holds the
\* live ones.  NoQuadric is the None of the quadric parameter.
NoQuadric == 0
gluNewQuadric(g, quadric) ==
  Call([g EXCEPT !.quadricNames = @ \cup {quadric}], "gluNewQuadric")
gluDeleteQuadric(g, quadric) ==
  Call([g EXCEPT !.quadricNames = @ \ {quadric}], "gluDeleteQuadric")

\* gluCylinder, gluDisk, gluSphere: the shape is drawn in the state the
\* call finds.
gluDraw(g, name) == Call([g EXCEPT !.drawn = Append(@, State(g))], name)

\* The frame of a cylinder, the translation to the centre of a sphere, and
\* glTranslatef(0, 0, dz): a matrix moved by dz along z is dz * ZUnit
\* further on, so that moving by dz and then by -dz gives the matrix back.
FrameMatrix == 303
CentreMatrix == 304
ZUnit == 10000000
glTranslateZ(g, dz) ==
  Call([g EXCEPT !.stack[g.matrixMode] = Append(Pop(@), Top(@) + dz * ZUnit)],
       "glTranslatef")

\* Lengths are counted in units of 0.0001: render_cylinder draws nothing
\* for an axis shorter than 0.001.
MinAxisNorm == 10

\* GLUQuadricWrapper.__init__(quadric)
QuadricWrapperInit(g, quadric) ==
  IF quadric # NoQuadric
    THEN [g |-> g, self |-> [alive |-> TRUE, quadric |-> quadric]]
    ELSE LET q == GenName(g.quadricNames)
         IN  [g |-> gluNewQuadric(g, q), self |-> [alive |-> TRUE, quadric |-> q]]

\* A variant of the wrapper's terminate() that leaves the quadric alone.
QuadricWrapperKeeps(g, self, raises) == g

\* GLUQuadricWrapper.__exit__, that is terminate(), on a wrapper that is
\* alive.  raises: gluDeleteQuadric raises, having had no effect.
QuadricWrapperExit(g, self, raises) ==
  IF raises THEN g ELSE gluDeleteQuadric(g, self.quadric)

\* OrientedCylinderContext.__enter__ / __exit__
OrientedCylinderEnter(g) ==
  LET g1 == glMatrixMode(g, GL_MODELVIEW)
      g2 == glPushMatrix(g1)
  IN  glMultMatrix(g2, FrameMatrix, "glMultMatrixf")
OrientedCylinderExitKeeps(g) == g
OrientedCylinderExit(g) == glPopMatrix(g)

\* What a GLU call does with a quadric that was deleted: the behaviour is
\* undefined.  The call may go on as with a live quadric, or raise; a
\* crash of the process leaves no state behind.
Undefined == {"proceeds", "raises"}

\* OpenGLUtil.render_cylinder(base_centre, top_centre, ...,
\* quadric=quadric), where axis_norm is the distance between the centres
\* and ub what the GLU calls do with a deleted quadric.
RenderCylinder(g, axis_norm, quadric, ub) ==
  IF axis_norm < MinAxisNorm THEN [g |-> g, raised |-> FALSE]
  ELSE
    LET w == QuadricWrapperInit(g, quadric)
        raises == w.self.quadric \notin w.g.quadricNames /\ ub = "raises"
        g1 == OrientedCylinderEnter(w.g)
        g2 == gluDraw(g1, "gluCylinder")
        g3 == gluDraw(g2, "gluDisk")
        g4 == glTranslateZ(g3, axis_norm)
        g5 == gluDraw(g4, "gluDisk")
        g6 == glTranslateZ(g5, -axis_norm)
    IN  Then(IF raises THEN g1 ELSE g6, LAMBDA b :
          [g |-> QuadricWrapperExit(OrientedCylinderExit(b), w.self, raises),
           raised |-> raises])

\* OpenGLUtil.render_sphere(centre, radius, ..., quadric=quadric)
RenderSphere(g, quadric, ub) ==
  LET w == QuadricWrapperInit(g, quadric)
      raises == w.self.quadric \notin w.g.quadricNames /\ ub = "raises"
      g1 == glMatrixMode(w.g, GL_MODELVIEW)
      g2 == glPushMatrix(g1)
      g3 == glMultMatrix(g2, CentreMatrix, "glTranslatef")
      g4 == gluDraw(g3, "gluSphere")
  IN  Then(IF raises THEN g3 ELSE glPopMatrix(g4), LAMBDA b :
        [g |-> QuadricWrapperExit(b, w.self, raises), raised |-> raises])

(* ------------------------- render_to_image ---------------------------- *)

\* A variant of the size check that looks at the width only.
SizeDiffersInWidth(self, width, height) ==
  width # self.width

\* A variant of the size check that finds every size different.
SizeAlwaysDiffers(self, width, height) ==
  TRUE

\* The size check of render_to_image.
SizeDiffers(self, width, height) ==
  width # self.width \/ height # self.height

\* Lines 88-94 of render_to_image: make sure the frame buffer exists and
\* has the right size.  w is the world of Python objects the call works
\* on: [g, fbs, framebuffer]; the result adds raised, the events, and the
\* object constructed.  An object that nothing refers to any more joins
\* fbs, where it waits for its finaliser.
EnsureFrameBuffer(w, width, height, complete, err) ==
  IF w.framebuffer = None
    THEN LET r == FrameBufferInit(w.g, width, height, complete) IN
         [g |-> r.g,
          fbs |-> IF r.raised THEN w.fbs \cup {r.self} ELSE w.fbs,
          framebuffer |-> IF r.raised THEN None ELSE r.self,
          raised |-> r.raised, events |-> <<"construct">>, new |-> r.self]
  ELSE IF SizeDiffers(w.framebuffer, width, height)
    THEN LET t == FrameBufferTerminate(w.g, w.framebuffer, err)
             r == FrameBufferInit(t.g, width, height, complete)
         IN  [g |-> r.g,
              fbs |-> w.fbs \cup {IF r.raised THEN r.self ELSE t.self},
              framebuffer |-> IF r.raised THEN t.self ELSE r.self,
              raised |-> r.raised, events |-> <<"terminate", "construct">>,
              new |-> r.self]
  ELSE [g |-> w.g, fbs |-> w.fbs, framebuffer |-> w.framebuffer,
        raised |-> FALSE, events |-> <<>>, new |-> None]

\* A variant of the body of the projection context that reads the image
\* back after the model-view context is left.
RenderToImageInnerReadsLate(g, mesh, singular, light_dirs, fail) ==
  LET e == MatrixEnter(g, GL_MODELVIEW, [raises |-> singular, m |-> ModelviewMatrix])
  IN  IF e.raised THEN e
      ELSE Then(e.g, LAMBDA g1 :
           Then(Render(g1, mesh, light_dirs, fail), LAMBDA r :
             [g |-> IF r.raised THEN MatrixExit(r.g, GL_MODELVIEW)
                    ELSE ReadBgrImage(MatrixExit(r.g, GL_MODELVIEW)),
              raised |-> r.raised]))

\* Lines 109-114: the body of the projection context.
RenderToImageInner(g, mesh, singular, light_dirs, fail) ==
  LET e == MatrixEnter(g, GL_MODELVIEW, [raises |-> singular, m |-> ModelviewMatrix])
  IN  IF e.raised THEN e
      ELSE Then(e.g, LAMBDA g1 :
           Then(Render(g1, mesh, light_dirs, fail), LAMBDA r :
             [g |-> MatrixExit(IF r.raised THEN r.g ELSE ReadBgrImage(r.g), GL_MODELVIEW),
              raised |-> r.raised]))

\* Lines 97-114: the with statement on the frame buffer.  singular: the
\* camera pose has no inverse.
RenderToImageBody(g, self, mesh, width, height, singular, light_dirs, fail) ==
  LET g1 == FrameBufferEnter(g, self)
      g2 == SetViewport(g1, <<0, 0>>, <<FracDen, FracDen>>, <<width, height>>)
      g3 == glClearColor(g2, "white")
      g4 == Call(g3, "glClear")
      e == MatrixEnter(g4, GL_PROJECTION,
                       [raises |-> FALSE, m |-> ProjectionMatrix(width, height)])
  IN  Then(e.g, LAMBDA g5 :
      Then(RenderToImageInner(g5, mesh, singular, light_dirs, fail), LAMBDA r :
        [g |-> FrameBufferExit(MatrixExit(r.g, GL_PROJECTION)), raised |-> r.raised]))

\* OpenGLMeshRenderer.terminate
RendererTerminate(w, err) ==
  IF w.framebuffer # None
    THEN LET t == FrameBufferTerminate(w.g, w.framebuffer, err) IN
         [g |-> t.g, fbs |-> w.fbs \cup {t.self}, framebuffer |-> None]
    ELSE w

(* ------------------------------ actions ------------------------------- *)

\* What a handler leaves in last.
Did(op, raised, args, out) ==
  [op |-> op, raised |-> raised, pre |-> State(gl), args |-> args, out |-> out]

\* The state a handler starts from: gl, with an empty log.
Start == State(gl)

NoMeshes == <<>>
\* A mesh without normals and a mesh with normals.
TwoMeshes == << [use_normals |-> FALSE, vbo |-> 1, ibo |-> 2],
                [use_normals |-> TRUE, vbo |-> 3, ibo |-> 4] >>

InitWith(ms) ==
  /\ gl = InitGL
  /\ ctx = <<>>
  /\ exc = FALSE
  /\ meshes = ms
  /\ vbos = 2 * Len(ms)
  /\ fbs = {}
  /\ owned = <<>>
  /\ framebuffer = None
  /\ last = [op |-> "init", raised |-> FALSE, pre |-> InitGL, args |-> <<>>, out |-> <<>>]

\* The caller constructs a mesh.
NewMesh ==
  /\ ~exc
  /\ Len(meshes) < MaxMeshes
  /\ \E vertices, vertex_colours \in Arrays, vertex_normals \in Arrays \cup {NoArray} :
       LET r == MeshInit(vertices, vertex_colours, vertex_normals) IN
       /\ vbos' = vbos + r.nvbo
       /\ meshes' = IF r.result = "ok"
                      THEN Append(meshes, [use_normals |-> r.use_normals,
                                           vbo |-> vbos + 1, ibo |-> vbos + 2])
                      ELSE meshes
       /\ exc' = (r.result # "ok")
       /\ gl' = Start
       /\ last' = Did("OpenGLTriMesh", r.result # "ok",
                      [vertices |-> vertices, vertex_colours |-> vertex_colours,
                       vertex_normals |-> vertex_normals],
                      [result |-> r.result, meshes |-> Len(meshes), vbos |-> vbos])
  /\ UNCHANGED <<ctx, fbs, framebuffer, owned>>

\* The caller draws a mesh directly.
CallMeshRender ==
  /\ ~exc
  /\ \E i \in DOMAIN meshes : \E fail \in MeshFails(meshes[i]) :
       LET r == MeshRender(Start, meshes[i], fail) IN
       /\ gl' = r.g
       /\ exc' = r.raised
       /\ last' = Did("mesh.render", r.raised, [mesh |-> meshes[i], fail |-> fail], <<>>)
  /\ UNCHANGED <<ctx, meshes, vbos, fbs, framebuffer, owned>>

\* The caller renders a mesh with the renderer.
CallRender(inputs, fails) ==
  /\ ~exc
  /\ Len(gl.attribStack) < MaxStack
  /\ \E i \in DOMAIN meshes : \E fail \in {DrawFails(meshes[i], f) : f \in fails} :
     \E light_dirs \in inputs :
       LET r == Render(Start, meshes[i], light_dirs, fail) IN
       /\ gl' = r.g
       /\ exc' = r.raised
       /\ last' = Did("render", r.raised,
                      [mesh |-> meshes[i], fail |-> fail, light_dirs |-> light_dirs], <<>>)
  /\ UNCHANGED <<ctx, meshes, vbos, fbs, framebuffer, owned>>

\* The caller loads a matrix: OpenGLUtil.load_matrix(m).
CallLoadMatrix ==
  /\ ~exc
  /\ \E m \in 0 .. MaxMat :
       /\ gl' = glLoadMatrix(Start, m)
       /\ last' = Did("load_matrix", FALSE, [m |-> m], <<>>)
  /\ UNCHANGED <<ctx, exc, meshes, vbos, fbs, framebuffer, owned>>

\* The caller reaches a with statement: c.__enter__() runs, and the body
\* is entered unless it raises.
With(cs) ==
  /\ ~exc
  /\ Len(ctx) < MaxCtx
  /\ \E c \in cs :
       /\ Room(gl, c)
       /\ LET r == Enter(Start, c) IN
          /\ gl' = r.g
          /\ exc' = r.raised
          /\ ctx' = IF r.raised THEN ctx ELSE Append(ctx, [c |-> c, pre |-> Start])
          /\ last' = Did("__enter__", r.raised, c, <<>>)
  /\ UNCHANGED <<meshes, vbos, fbs, framebuffer, owned>>

\* The innermost with statement is left, by the end of its body or by an
\* exception: c.__exit__() runs, and returns None, so that an exception
\* propagates.
Leave ==
  /\ ctx # <<>>
  /\ LET f == Top(ctx) IN
       /\ gl' = Exit(Start, f.c)
       /\ last' = Did("__exit__", exc, f.c, [entry |-> f.pre])
  /\ ctx' = Pop(ctx)
  /\ UNCHANGED <<exc, meshes, vbos, fbs, framebuffer, owned>>

\* The Python objects a renderer's handler works on.
World == [g |-> Start, fbs |-> fbs, framebuffer |-> framebuffer]

\* What may happen in render_to_image once the frame buffer is bound:
\* nothing, the camera pose has no inverse, more than 8 light directions
\* were passed, the mesh's draw call raises.
Smooth == [singular |-> FALSE, light_dirs |-> NoDirs, fail |-> FALSE]
Outcomes ==
  { Smooth,
    [singular |-> TRUE, light_dirs |-> NoDirs, fail |-> FALSE],
    [singular |-> FALSE, light_dirs |-> Dirs(NumLights + 1), fail |-> FALSE],
    [singular |-> FALSE, light_dirs |-> NoDirs, fail |-> TRUE] }

\* The caller renders a mesh to an image of size (width, height).  The
\* outcomes of the calls made on the way are chosen as they are reached:
\* errs are the failure points of terminate()'s deletes, outcomes those of
\* the rendering.
CallRenderToImage(errs, outcomes) ==
  /\ ~exc
  /\ Cardinality(gl.framebufferNames) < MaxFrameBuffers
  /\ Cardinality(fbs) < MaxGarbage
  /\ Len(gl.attribStack) < MaxStack
  /\ \A mode \in MatrixModes : Depth(gl, mode) < MaxStack
  /\ \E i \in DOMAIN meshes, width, height \in 1 .. MaxDim :
     \E complete \in BOOLEAN, err \in errs :
     \E w \in {EnsureFrameBuffer(World, width, height, complete, err)} :
       /\ complete \/ "construct" \in Range(w.events)
       /\ err = 0 \/ ("terminate" \in Range(w.events) /\ framebuffer.alive)
       /\ fbs' = w.fbs
       /\ framebuffer' = w.framebuffer
       /\ IF w.raised
            THEN /\ gl' = w.g
                 /\ exc' = TRUE
                 /\ last' = Did("render_to_image", TRUE,
                                [width |-> width, height |-> height],
                                [events |-> w.events, new |-> w.new, bound |-> None])
            ELSE \E o \in outcomes :
                 \E r \in {RenderToImageBody(w.g, w.framebuffer, meshes[i],
                                              width, height, o.singular, o.light_dirs,
                                              DrawFails(meshes[i], o.fail))} :
                   /\ gl' = r.g
                   /\ exc' = r.raised
                   /\ last' = Did("render_to_image", r.raised,
                                  [width |-> width, height |-> height],
                                  [events |-> w.events, new |-> w.new,
                                   bound |-> w.framebuffer])
  /\ UNCHANGED <<ctx, meshes, vbos, owned>>

\* renderer.terminate(), or the end of a with statement on the renderer.
CallTerminate(errs) ==
  /\ ~exc
  /\ Cardinality(fbs) < MaxGarbage
  /\ \E err \in errs :
     \E w \in {RendererTerminate(World, err)} :
       /\ err = 0 \/ framebuffer.alive
       /\ gl' = w.g
       /\ fbs' = w.fbs
       /\ framebuffer' = w.framebuffer
       /\ last' = Did("terminate", FALSE, <<>>, <<>>)
  /\ UNCHANGED <<ctx, exc, meshes, vbos, owned>>

\* The garbage collector finalises a frame buffer that nothing refers to
\* any more: OpenGLFrameBuffer.__del__ runs terminate().
DelFrameBuffer(errs) ==
  /\ \E self \in fbs, err \in errs :
     \E t \in {FrameBufferTerminate(Start, self, err)} :
       /\ err = 0 \/ self.alive
       /\ gl' = t.g
       /\ fbs' = fbs \ {self}
       /\ last' = Did("OpenGLFrameBuffer.__del__", FALSE, self, <<>>)
  /\ UNCHANGED <<ctx, exc, meshes, vbos, framebuffer, owned>>

\* The classes that own native resources.
Texture == "OpenGLTexture"
ImageRenderer == "OpenGLImageRenderer"
FrameBuffer == "OpenGLFrameBuffer"
Classes == {Texture, ImageRenderer, FrameBuffer}

\* o.terminate(), for an object o of one of the classes.
Terminate(g, o, err) ==
  CASE o.class = Texture       -> TextureTerminate(g, o.self, err)
    [] o.class = ImageRenderer -> ImageRendererTerminate(g, o.self, err)
    [] o.class = FrameBuffer   ->
         LET t == FrameBufferTerminate(g, o.self, err)
         IN  [g |-> t.g, self |-> t.self, raised |-> FALSE]

\* The native deletes of an object's resources, in the order terminate()
\* issues them, and the points at which they may raise.
DeleteCalls(class) ==
  IF class = FrameBuffer
    THEN <<"glDeleteRenderbuffers", "glDeleteTextures", "glDeleteFramebuffers">>
    ELSE <<"glDeleteTextures">>
ErrorsOf(class) == 0 .. Len(DeleteCalls(class))

\* The native deletes a terminate() call attempted: those it issued, and
\* the one that raised.
Attempted(o, err, calls) ==
  (Range(calls) \cap Range(DeleteCalls(o.class)))
  \cup (IF o.self.alive /\ err # 0 THEN {DeleteCalls(o.class)[err]} ELSE {})

\* The frame buffers the caller may use in a with statement.
FrameBufferContexts ==
  {[kind |-> "framebuffer", matrix_mode |-> "-", arg |-> owned[i].self] :
     i \in {j \in DOMAIN owned : owned[j].class = FrameBuffer}}

\* The caller constructs a texture, an image renderer or a frame buffer.
\* hist lists, for each terminate() and __exit__ call on the object so far,
\* the native deletes the call attempted; a frame buffer's width and
\* height are drawn from dims.
NewOwned(classes, dims) ==
  /\ ~exc
  /\ Len(owned) < MaxOwned
  /\ Cardinality(gl.textureNames) < MaxTextures + MaxOwned
  /\ \E class \in classes :
       IF class = FrameBuffer
         THEN /\ Cardinality(gl.framebufferNames) < MaxFrameBuffers
              /\ Cardinality(fbs) < MaxGarbage
              /\ \E width, height \in dims, complete \in BOOLEAN :
                  \E r \in {FrameBufferInit(Start, width, height, complete)} :
                    /\ gl' = r.g
                    /\ exc' = r.raised
                    /\ owned' = IF r.raised THEN owned
                                 ELSE Append(owned, [class |-> class, self |-> r.self,
                                                     hist |-> <<>>])
                    /\ fbs' = IF r.raised THEN fbs \cup {r.self} ELSE fbs
                    /\ last' = Did("owned.__init__", r.raised, [class |-> class], [self |-> r.self])
         ELSE \E r \in {TextureInit(Start)} :
                /\ gl' = r.g
                /\ exc' = FALSE
                /\ owned' = Append(owned, [class |-> class, self |-> r.self, hist |-> <<>>])
                /\ fbs' = fbs
                /\ last' = Did("owned.__init__", FALSE, [class |-> class], [self |-> r.self])
  /\ UNCHANGED <<ctx, meshes, vbos, framebuffer>>

\* The caller calls o.terminate(), or leaves a with statement on a texture
\* or an image renderer, whose __exit__ calls terminate().
OwnedTerminate(errs) ==
  /\ ~exc
  /\ \E i \in DOMAIN owned :
     \E via \in (IF owned[i].class = FrameBuffer
                   THEN {"owned.terminate"}
                   ELSE {"owned.terminate", "owned.__exit__"}) :
     \E err \in errs \cap ErrorsOf(owned[i].class) :
     \E t \in {Terminate(Start, owned[i], err)} :
       /\ err = 0 \/ owned[i].self.alive
       /\ Len(owned[i].hist) < MaxCalls
       /\ gl' = t.g
       /\ exc' = t.raised
       /\ owned' = [owned EXCEPT ![i] =
                      [class |-> @.class, self |-> t.self,
                       hist |-> Append(@.hist, Attempted(owned[i], err, t.g.calls))]]
       /\ last' = Did(via, t.raised, [object |-> owned[i], err |-> err],
                      [object |-> owned'[i]])
  /\ UNCHANGED <<ctx, meshes, vbos, fbs, framebuffer>>

\* The caller drops its last reference to an object that no with statement
\* holds: __del__ runs terminate().  What __del__ raises is not propagated.
OwnedDel(errs) ==
  /\ ~exc
  /\ \E i \in DOMAIN owned :
     \E err \in errs \cap ErrorsOf(owned[i].class) :
     \E t \in {Terminate(Start, owned[i], err)} :
       /\ err = 0 \/ owned[i].self.alive
       /\ \A k \in DOMAIN ctx : ctx[k].c.kind = "framebuffer" => ctx[k].c.arg # owned[i].self
       /\ gl' = t.g
       /\ owned' = [k \in 1 .. Len(owned) - 1 |-> IF k < i THEN owned[k] ELSE owned[k + 1]]
       /\ last' = Did("owned.__del__", FALSE, [object |-> owned[i], err |-> err],
                      [object |-> [class |-> owned[i].class, self |-> t.self,
                                   hist |-> Append(owned[i].hist,
                                                   Attempted(owned[i], err, t.g.calls))],
                       raised |-> t.raised])
  /\ UNCHANGED <<ctx, exc, meshes, vbos, fbs, framebuffer>>

\* The numbers of channels of the images the caller passes.
Channels == {1, 3, 4}

\* The places in owned of the objects of a class.
Owned(class) == {i \in DOMAIN owned : owned[i].class = class}

\* The caller calls texture.set_image(image).
CallSetImage(channelss) ==
  /\ ~exc
  /\ \E i \in Owned(Texture), channels \in channelss :
     \E r \in {SetImage(Start, channels)} :
       /\ gl' = r.g
       /\ exc' = r.raised
       /\ last' = Did("set_image", r.raised, [channels |-> channels], <<>>)
  /\ UNCHANGED <<ctx, meshes, vbos, fbs, framebuffer, owned>>

\* The caller calls renderer.render_image(image, use_alpha_blending=...).
CallRenderImage(channelss) ==
  /\ ~exc
  /\ Len(gl.attribStack) < MaxStack
  /\ \A mode \in MatrixModes : Depth(gl, mode) < MaxStack
  /\ \E i \in Owned(ImageRenderer), channels \in channelss :
     \E use_alpha_blending, pop_raises \in BOOLEAN :
     \E r \in {RenderImage(Start, owned[i].self, channels, use_alpha_blending, pop_raises)} :
       /\ pop_raises => (use_alpha_blending /\ channels = 4)
       /\ gl' = r.g
       /\ exc' = r.raised
       /\ last' = Did("render_image", r.raised,
                      [channels |-> channels, use_alpha_blending |-> use_alpha_blending], <<>>)
  /\ UNCHANGED <<ctx, meshes, vbos, fbs, framebuffer, owned>>

\* A propagating exception is caught by an except clause of the caller,
\* inside the innermost open with statement or outside all of them.
\* The caller sets the viewport to a part of a window.
CallSetViewport(top_lefts, bottom_rights) ==
  /\ ~exc
  /\ \E top_left \in top_lefts, bottom_right \in bottom_rights :
     \E window_size \in (1 .. MaxWindow) \X (1 .. MaxWindow) :
       /\ gl' = SetViewport(Start, top_left, bottom_right, window_size)
       /\ last' = Did("set_viewport", FALSE,
                      [top_left |-> top_left, bottom_right |-> bottom_right,
                       window_size |-> window_size], <<>>)
  /\ UNCHANGED <<ctx, exc, meshes, vbos, fbs, framebuffer, owned>>

\* The caller sets the current matrix from camera intrinsics (fx, fy, cx,
\* cy) and the size of an image of one or two pixels a side.
CallSetProjectionMatrix ==
  /\ ~exc
  /\ \E fx, fy \in 1 .. MaxFocal, cx, cy \in 0 .. 1, width, height \in 1 .. 2 :
       /\ gl' = SetProjectionMatrix(Start, <<fx, fy, cx, cy>>, width, height)
       /\ last' = Did("set_projection_matrix", FALSE,
                      [intrinsics |-> <<fx, fy, cx, cy>>, width |-> width,
                       height |-> height],
                      [frustum |-> Frustum(<<fx, fy, cx, cy>>, width, height)])
  /\ UNCHANGED <<ctx, exc, meshes, vbos, fbs, framebuffer, owned>>

\* The quadrics the caller holds: objects of the class GLUquadric.
Quadric == "GLUquadric"
Quadrics == {owned[i].self : i \in {j \in DOMAIN owned : owned[j].class = Quadric}}

\* The caller creates a quadric: gluNewQuadric().
NewQuadric ==
  /\ ~exc
  /\ Len(owned) < MaxOwned
  /\ LET q == GenName(gl.quadricNames) IN
       /\ gl' = gluNewQuadric(Start, q)
       /\ owned' = Append(owned, [class |-> Quadric, self |-> q, hist |-> <<>>])
       /\ last' = Did("gluNewQuadric", FALSE, <<>>, [quadric |-> q])
  /\ UNCHANGED <<ctx, exc, meshes, vbos, fbs, framebuffer>>

\* The model-view matrix is the current one, there is room on its stack
\* and its product with another matrix is one the model can write down.
CanDraw ==
  /\ gl.matrixMode = GL_MODELVIEW
  /\ Depth(gl, GL_MODELVIEW) < MaxStack
  /\ CurrentMatrix(gl, GL_MODELVIEW) < MatBase

\* The caller renders a cylinder, with a quadric of its own or without.
CallRenderCylinder(axis_norms) ==
  /\ ~exc
  /\ CanDraw
  /\ \E axis_norm \in axis_norms, quadric \in Quadrics \cup {NoQuadric}, ub \in Undefined :
       LET r == RenderCylinder(Start, axis_norm, quadric, ub) IN
       /\ ub = "raises" => r.raised
       /\ gl' = r.g
       /\ exc' = r.raised
       /\ last' = Did("render_cylinder", r.raised,
                      [axis_norm |-> axis_norm, quadric |-> quadric], <<>>)
  /\ UNCHANGED <<ctx, meshes, vbos, fbs, framebuffer, owned>>

\* The caller renders a sphere, with a quadric of its own or without.
CallRenderSphere ==
  /\ ~exc
  /\ CanDraw
  /\ \E quadric \in Quadrics \cup {NoQuadric}, ub \in Undefined :
       LET r == RenderSphere(Start, quadric, ub) IN
       /\ ub = "raises" => r.raised
       /\ gl' = r.g
       /\ exc' = r.raised
       /\ last' = Did("render_sphere", r.raised, [quadric |-> quadric], <<>>)
  /\ UNCHANGED <<ctx, meshes, vbos, fbs, framebuffer, owned>>

\* The caller reads the picture back: OpenGLUtil.read_bgr_image(width,
\* height).
CallReadBgrImage ==
  /\ ~exc
  /\ \E width, height \in 1 .. MaxDim :
     \E buffer \in Buffers(width, height) :
       /\ gl' = ReadBgrImage(Start)
       /\ last' = Did("read_bgr_image", FALSE,
                      [width |-> width, height |-> height, buffer |-> buffer],
                      [image |-> BgrImage(buffer, width, height)])
  /\ UNCHANGED <<ctx, exc, meshes, vbos, fbs, framebuffer, owned>>

Catch ==
  /\ exc
  /\ exc' = FALSE
  /\ gl' = Start
  /\ last' = Did("except", FALSE, <<>>, <<>>)
  /\ UNCHANGED <<ctx, meshes, vbos, fbs, framebuffer, owned>>

(* --------------------------- specifications --------------------------- *)

\* The scoped contexts and the renderer's render(), on two meshes.
Init == InitWith(TwoMeshes)

Next ==
  \/ With(AttribContexts)
  \/ Leave
  \/ CallRender(LightDirInputs, BOOLEAN)
  \/ Catch

Spec == Init /\ [][Next]_vars

\* The matrix contexts.
MatrixNext ==
  \/ With(MatrixContexts)
  \/ Leave
  \/ CallLoadMatrix
  \/ Catch

MatrixSpec == Init /\ [][MatrixNext]_vars

\* The renderer and its cached frame buffer, on one mesh.
OneMesh == << [use_normals |-> TRUE, vbo |-> 1, ibo |-> 2] >>
FrameBufferInitState == InitWith(OneMesh)

FrameBufferNext ==
  \/ CallRenderToImage({0}, {Smooth})
  \/ CallRender({NoDirs}, {FALSE})
  \/ CallTerminate({0})
  \/ DelFrameBuffer({0})
  \/ Catch

FrameBufferSpec == FrameBufferInitState /\ [][FrameBufferNext]_vars

\* The mesh: its construction and its render().
MeshInitState == InitWith(NoMeshes)

MeshNext ==
  \/ NewMesh
  \/ CallMeshRender
  \/ Catch

MeshSpec == MeshInitState /\ [][MeshNext]_vars

\* The release of the objects that own native resources.
ReleaseNext ==
  \/ NewOwned(Classes, {1})
  \/ OwnedTerminate(DeleteErrors)
  \/ OwnedDel(DeleteErrors)
  \/ DelFrameBuffer({0})
  \/ Catch

ReleaseSpec == MeshInitState /\ [][ReleaseNext]_vars

\* Images: the texture's set_image and the image renderer's render_image.
ImageNext ==
  \/ NewOwned({Texture, ImageRenderer}, {1})
  \/ CallSetImage(Channels)
  \/ CallRenderImage(Channels)
  \/ OwnedDel({0})
  \/ Catch

ImageSpec == MeshInitState /\ [][ImageNext]_vars

\* Frame buffers as render targets: with statements on them, nested.
TargetNext ==
  \/ NewOwned({FrameBuffer}, {1})
  \/ With(FrameBufferContexts)
  \/ Leave
  \/ OwnedDel({0})
  \/ DelFrameBuffer({0})
  \/ Catch

TargetSpec == MeshInitState /\ [][TargetNext]_vars

\* The corners of the whole window and of its middle half, in quarters.
ViewportNext ==
  CallSetViewport({<<0, 0>>, <<1, 1>>}, {<<3, 3>>, <<FracDen, FracDen>>})

ViewportSpec == MeshInitState /\ [][ViewportNext]_vars

ProjectionNext ==
  \/ CallLoadMatrix
  \/ CallSetProjectionMatrix

ProjectionSpec == MeshInitState /\ [][ProjectionNext]_vars

ReadNext == CallReadBgrImage

ReadSpec == MeshInitState /\ [][ReadNext]_vars

\* Axes of length 0, 0.0009, 0.001 and 0.0011.
QuadricNext ==
  \/ NewQuadric
  \/ CallLoadMatrix
  \/ CallRenderCylinder({0, MinAxisNorm - 1, MinAxisNorm, MinAxisNorm + 1})
  \/ CallRenderSphere
  \/ Catch

QuadricSpec == MeshInitState /\ [][QuadricNext]_vars

(* ------------------------------ properties ---------------------------- *)

\* The attribute state render() saves: the depth buffer, enable and
\* lighting groups, and the depth of the attribute stack.
SavedByRender(g) ==
  [depth |-> Len(g.attribStack), enabled |-> g.enabled, light |-> g.light,
   depthFunc |-> g.depthFunc]

\* C1: render called with more than 8 light directions raises, issues no
\* graphics call at all and leaves the graphics state as it was before the
\* call; with exactly 8 directions it raises only if the mesh's own
\* render() does, and the mesh is drawn with the lights 0-7 enabled.
C1_RenderTooManyLights ==
  (last.op = "render" /\ ~last.args.light_dirs.none) =>
    LET n == Len(last.args.light_dirs.dirs) IN
    /\ n > NumLights =>
         /\ last.raised
         /\ gl.calls = <<>>
         /\ gl.drawn = <<>>
         /\ State(gl) = last.pre
    /\ n = NumLights =>
         /\ last.raised <=> (last.args.fail # 0)
         /\ last.args.fail = 0 =>
              /\ Len(gl.drawn) = 1
              /\ LightCaps \subseteq gl.drawn[1].enabled

\* C1's case: a call with 9 directions has raised in a state that differs
\* from the initial one.
C1_Witness ==
  /\ last.op = "render"
  /\ ~last.args.light_dirs.none
  /\ Len(last.args.light_dirs.dirs) = NumLights + 1
  /\ last.raised
  /\ gl.attribStack # <<>>
  /\ gl.enabled # {}

\* C2: on every way of leaving render(), the depth of the attribute stack
\* and the enable, lighting and depth state it saved are what they were
\* before the call.
C2_RenderRestores ==
  last.op = "render" => SavedByRender(gl) = SavedByRender(last.pre)

\* The stack a context saves its state on: the matrix stack of its mode,
\* with the current matrix on top, or the attribute stack.
StackOf(g, c) ==
  IF c.kind = "matrix" THEN g.stack[c.matrix_mode] ELSE g.attribStack

\* C3: after the exit handler of a context whose entry completed, whether
\* the body returned or raised, the stack the context pushed on has the
\* depth and the contents it had before entry.
C3_ExitRestores ==
  last.op = "__exit__" =>
    StackOf(gl, last.args) = StackOf(last.out.entry, last.args)

\* C4: when __enter__ raises after its push, the pushed entry has been
\* popped again: the depth of the stack equals its value before entry.
C4_EnterUndone ==
  (last.op = "__enter__" /\ last.raised) =>
    Len(StackOf(gl, last.args)) = Len(StackOf(last.pre, last.args))

\* C5: after entering and exiting an OpenGLMatrixContext for mode M, with
\* any change_matrix and any body, the current matrix of M and the depth of
\* M's stack are what they were before entry.
C5_MatrixContextRoundTrip ==
  (last.op = "__exit__" /\ last.args.kind = "matrix") =>
    LET M == last.args.matrix_mode IN
    /\ Top(gl.stack[M]) = Top(last.out.entry.stack[M])
    /\ Depth(gl, M) = Depth(last.out.entry, M)

\* The number of calls of a native function in a log, and the place of its
\* first call.
Count(calls, name) == Cardinality({i \in DOMAIN calls : calls[i] = name})
First(calls, name) == CHOOSE i \in DOMAIN calls :
                        calls[i] = name /\ \A j \in 1 .. i - 1 : calls[j] # name

\* C6: whenever a render_to_image call with image size (w, h) gets as far
\* as binding the frame buffer, the frame buffer bound is the cached one,
\* its width and height are w and h, and the mesh is drawn into it.
C6_BoundFrameBufferSize ==
  (last.op = "render_to_image" /\ last.out.bound # None) =>
    /\ framebuffer = last.out.bound
    /\ framebuffer.width = last.args.width
    /\ framebuffer.height = last.args.height
    /\ "glBindFramebuffer" \in Range(gl.calls)
    /\ \A i \in DOMAIN gl.drawn : gl.drawn[i].drawFramebuffer = framebuffer.id

\* C6's case: a call whose size differs from the cached frame buffer's
\* has replaced it, drawn the mesh and read the image.
C6_Witness ==
  /\ last.op = "render_to_image"
  /\ last.out.bound # None
  /\ last.out.events = <<"terminate", "construct">>
  /\ Len(gl.drawn) = 2

\* One step of the renderer, as far as its frame buffer is concerned.
C7_Step ==
  LET created == Count(gl'.calls, "glGenFramebuffers")
      deleted == Count(gl'.calls, "glDeleteFramebuffers")
      width == last'.args.width
      height == last'.args.height
  IN
  /\ last'.op = "render" =>
       /\ framebuffer' = framebuffer
       /\ fbs' = fbs
       /\ created = 0 /\ deleted = 0
  /\ (last'.op = "render_to_image" /\ framebuffer = None) =>
       /\ created = 1 /\ deleted = 0
       /\ ~last'.raised => (framebuffer' # None /\ framebuffer'.alive)
  /\ (last'.op = "render_to_image" /\ framebuffer # None
        /\ width = framebuffer.width /\ height = framebuffer.height) =>
       /\ framebuffer' = framebuffer
       /\ fbs' = fbs
       /\ created = 0 /\ deleted = 0
  /\ (last'.op = "render_to_image" /\ framebuffer # None
        /\ (width # framebuffer.width \/ height # framebuffer.height)) =>
       /\ created = 1
       /\ framebuffer.alive =>
            /\ deleted = 1
            /\ First(gl'.calls, "glDeleteFramebuffers") < First(gl'.calls, "glGenFramebuffers")
       /\ [framebuffer EXCEPT !.alive = FALSE] \in fbs' \cup {framebuffer'}
       /\ ~last'.raised =>
            /\ framebuffer'.alive
            /\ framebuffer'.width = width /\ framebuffer'.height = height
  /\ (last'.op = "terminate" /\ framebuffer # None) =>
       [framebuffer EXCEPT !.alive = FALSE] \in fbs'

\* C7: the cached frame buffer is created lazily and recreated exactly
\* when the requested size changes: render() never creates it, the first
\* render_to_image creates it, a call of the cached size keeps the object
\* without any create or delete, a call of another size terminates the old
\* object before it constructs the new one, and an object keeps its width
\* and height when it is terminated.
C7_LazyFrameBuffer == [][C7_Step]_vars

\* C7's case: a call of the cached size has kept the live frame buffer.
C7_Witness ==
  /\ last.op = "render_to_image"
  /\ last.out.events = <<>>
  /\ ~last.raised
  /\ framebuffer.alive

\* C8: when the completeness check fails, render_to_image raises after one
\* construction, the object constructed is not alive and is not the cached
\* one, the cache stays empty if it was, and the finaliser of an object
\* that is not alive issues no native call.
C8_FailedConstruction ==
  /\ (last.op = "render_to_image" /\ last.raised /\ last.out.bound = None) =>
       /\ ~last.out.new.alive
       /\ last.out.new \in fbs
       /\ framebuffer # last.out.new
       /\ Count(gl.calls, "glCheckFramebufferStatus") = 1
       /\ Count(gl.calls, "glGenFramebuffers") = 1
       /\ last.out.events = <<"construct">> => framebuffer = None
  /\ (last.op = "OpenGLFrameBuffer.__del__" /\ ~last.args.alive) =>
       gl.calls = <<>>

\* C8's case: the finaliser has run on an object whose construction
\* failed; its native frame buffer still exists.
C8_Witness ==
  /\ last.op = "OpenGLFrameBuffer.__del__"
  /\ ~last.args.alive
  /\ last.args.id \in gl.framebufferNames
  /\ framebuffer = None

\* The vertex streams a mesh needs.
Streams(mesh) ==
  {GL_VERTEX_ARRAY, GL_COLOR_ARRAY} \cup
  (IF mesh.use_normals THEN {GL_NORMAL_ARRAY} ELSE {})

\* C9: the mesh is drawn with exactly its streams enabled and its buffers
\* bound; when render() returns or raises, no stream is enabled, no vertex
\* or index buffer is bound, and the client state is as it was found.
C9_MeshRenderStreams ==
  last.op = "mesh.render" =>
    LET mesh == last.args.mesh IN
    /\ \A i \in DOMAIN gl.drawn :
         /\ gl.drawn[i].clientStates = Streams(mesh)
         /\ gl.drawn[i].arrayBuffer = mesh.vbo
         /\ gl.drawn[i].elementBuffer = mesh.ibo
    /\ Len(gl.drawn) = IF last.raised THEN 0 ELSE 1
    /\ gl.clientStates \cap Streams(mesh) = {}
    /\ gl.arrayBuffer = 0
    /\ gl.elementBuffer = 0
    /\ gl.clientStates = last.pre.clientStates
    /\ gl.arrayBuffer = last.pre.arrayBuffer
    /\ gl.elementBuffer = last.pre.elementBuffer

\* C9's case: the render() of a mesh with normals has raised after it
\* enabled the three streams.
C9_Witness ==
  /\ last.op = "mesh.render"
  /\ last.raised
  /\ last.args.mesh.use_normals
  /\ Count(gl.calls, "glEnableClientState") = 3

\* The arrays passed to a mesh's constructor.
Passed(args) ==
  {args.vertices, args.vertex_colours} \cup
  (IF args.vertex_normals = NoArray THEN {} ELSE {args.vertex_normals})

\* C10: the construction of a mesh raises whenever the arrays passed
\* differ in their numbers of rows or one of them is not of float64; no
\* mesh and no buffer object has then been created.
C10_MeshInitFails ==
  last.op = "OpenGLTriMesh" =>
    LET bad == \/ \E a, b \in Passed(last.args) : a.rows # b.rows
               \/ \E a \in Passed(last.args) : a.dtype # float64
    IN  bad => /\ last.raised
               /\ last.out.result # "ok"
               /\ Len(meshes) = last.out.meshes
               /\ vbos = last.out.vbos

\* C10's case: arrays of float64 whose numbers of rows differ were passed,
\* after a mesh had been constructed.
C10_Witness ==
  /\ last.op = "OpenGLTriMesh"
  /\ last.raised
  /\ \A a \in Passed(last.args) : a.dtype = float64
  /\ last.args.vertex_normals # NoArray
  /\ last.args.vertex_normals.rows # last.args.vertices.rows
  /\ Len(meshes) > 0

\* C11: set_image and render_image called with an image whose number of
\* channels is neither 3 nor 4 raise and have no effect: no native call is
\* issued (no upload, no texture parameter, no matrix push, no draw) and
\* the state is as before the call.
C11_BadChannels ==
  (last.op \in {"set_image", "render_image"} /\ last.args.channels \notin {3, 4}) =>
    /\ last.raised
    /\ gl.calls = <<>>
    /\ gl.drawn = <<>>
    /\ State(gl) = last.pre

\* The native deletes of an object were all attempted by the first
\* terminate(), __exit__ or __del__ call on it, and none by a later call.
ReleasedOnce(o) ==
  \A k \in DOMAIN o.hist :
    o.hist[k] = IF k = 1 THEN Range(DeleteCalls(o.class)) ELSE {}

\* C12: over any sequence of terminate(), __exit__ and __del__ calls on a
\* texture, a frame buffer or an image renderer, the native delete of each
\* of its resources is attempted by the first call and by no later one.
C12_ReleasedOnce ==
  /\ \A i \in DOMAIN owned : ReleasedOnce(owned[i])
  /\ last.op = "owned.__del__" => ReleasedOnce(last.out.object)

\* C13: when a native delete raises during terminate() or __exit__, the
\* call returns normally and the object is marked not alive; the mesh
\* renderer's terminate() leaves no cached frame buffer.
C13_DeleteErrorsSuppressed ==
  /\ (last.op \in {"owned.terminate", "owned.__exit__"} /\ last.args.err # 0) =>
       /\ ~last.raised
       /\ ~last.out.object.self.alive
  /\ last.op = "terminate" => (~last.raised /\ framebuffer = None)

\* C14: entering a frame buffer's with statement makes that frame buffer
\* the current render target; leaving it, at the end of the body or by an
\* exception, makes the default target (0) current, whatever was current
\* before the entry: also when an outer frame buffer's with statement is
\* still open.
C14_FrameBufferTarget ==
  /\ (last.op = "__enter__" /\ last.args.kind = "framebuffer" /\ ~last.raised) =>
       gl.drawFramebuffer = last.args.arg.id
  /\ (last.op = "__exit__" /\ last.args.kind = "framebuffer") =>
       gl.drawFramebuffer = 0

\* The inner of two nested with statements on different frame buffers was
\* left, and the outer one is still open.
C14_Witness ==
  /\ last.op = "__exit__"
  /\ last.args.kind = "framebuffer"
  /\ ctx # <<>>
  /\ Top(ctx).c.kind = "framebuffer"
  /\ Top(ctx).c.arg.id \notin {0, last.args.arg.id}
  /\ last.out.entry.drawFramebuffer = Top(ctx).c.arg.id
  /\ last.pre.drawFramebuffer = last.args.arg.id

\* C15: render called with a list of k <= 8 light directions enables the
\* light slots 0 .. k-1 and no other, slot i carrying direction i; with no
\* list it enables the slots 0 and 1 with two opposite directions; with an
\* empty list it enables lighting and no light slot.  The mesh is drawn in
\* that state; every other slot is as it was before the call.
C15_RenderLights ==
  (last.op = "render" /\ ~TooManyLights(last.args.light_dirs)) =>
    LET none == last.args.light_dirs.none
        k  == IF none THEN 2 ELSE Len(last.args.light_dirs.dirs)
        set == 0 .. k - 1
    IN  /\ Count(gl.calls, "glEnable") = k + 4
        /\ Count(gl.calls, "glLightfv") = 3 * k
        /\ last.args.fail = 0 =>
             /\ Len(gl.drawn) = 1
             /\ GL_LIGHTING \in gl.drawn[1].enabled
             /\ \A i \in set :
                  /\ GL_LIGHT(i) \in gl.drawn[1].enabled
                  /\ gl.drawn[1].light[i].white
                  /\ ~none => gl.drawn[1].light[i].position = last.args.light_dirs.dirs[i + 1]
             /\ none =>
                  /\ gl.drawn[1].light[0].position # 0
                  /\ gl.drawn[1].light[1].position = -gl.drawn[1].light[0].position
             /\ \A i \in LightSlots \ set :
                  /\ GL_LIGHT(i) \in gl.drawn[1].enabled <=> GL_LIGHT(i) \in last.pre.enabled
                  /\ gl.drawn[1].light[i] = last.pre.light[i]

\* C15's case: a mesh was drawn by a render() call with no list of light
\* directions, made when no light slot was enabled.
C15_Witness ==
  /\ last.op = "render"
  /\ last.args.light_dirs.none
  /\ ~last.raised
  /\ Len(gl.drawn) = 1
  /\ last.pre.enabled \cap LightCaps = {}
  /\ gl.drawn[1].enabled \cap LightCaps = {GL_LIGHT(0), GL_LIGHT(1)}

\* The positions of the calls of a name in a log, and "every a comes
\* before every b".
Where(calls, name) == {i \in DOMAIN calls : calls[i] = name}
Precedes(calls, a, b) == \A i \in Where(calls, a), j \in Where(calls, b) : i < j

\* C16: a render_to_image call that returns has, in this order, made sure
\* of the frame buffer, bound it, set the viewport to the whole buffer,
\* cleared it, pushed and set the projection matrix, pushed and set the
\* model-view matrix, rendered the mesh and read the image back; the mesh
\* is drawn and the image read while the frame buffer is bound and both
\* matrices are in place; on return the default target is bound and both
\* matrix stacks are as deep as before the call.
C16_RenderToImageOrder ==
  (last.op = "render_to_image" /\ ~last.raised) =>
    LET calls == gl.calls
        v == First(calls, "glViewport")
        pushes == Where(calls, "glPushMatrix")
        pops == Where(calls, "glPopMatrix")
        read == First(calls, "glReadPixels")
    IN  /\ \A name \in {"glViewport", "glClear", "glPushAttrib", "glDrawElements",
                        "glPopAttrib", "glReadPixels"} : Count(calls, name) = 1
        /\ Cardinality(pushes) = 2 /\ Cardinality(pops) = 2
        /\ \A name \in {"glGenFramebuffers", "glDeleteFramebuffers",
                        "glCheckFramebufferStatus"} : Precedes(calls, name, "glViewport")
        /\ calls[v - 1] = "glBindFramebuffer"
        /\ Precedes(calls, "glViewport", "glClear")
        /\ Precedes(calls, "glClear", "glPushMatrix")
        /\ Precedes(calls, "glPushMatrix", "glPushAttrib")
        /\ Precedes(calls, "glPushAttrib", "glDrawElements")
        /\ Precedes(calls, "glDrawElements", "glPopAttrib")
        /\ Precedes(calls, "glPopAttrib", "glReadPixels")
        /\ Precedes(calls, "glReadPixels", "glPopMatrix")
        /\ \A i \in read + 1 .. Len(calls) - 1 : calls[i] # "glBindFramebuffer"
        /\ calls[Len(calls)] = "glBindFramebuffer"
        /\ Len(gl.drawn) = 2
        /\ \A i \in 1 .. 2 :
             /\ gl.drawn[i].drawFramebuffer = last.out.bound.id
             /\ gl.drawn[i].viewport = <<0, 0, last.args.width, last.args.height>>
             /\ \A mode \in MatrixModes : Depth(gl.drawn[i], mode) = Depth(last.pre, mode) + 1
             /\ CurrentMatrix(gl.drawn[i], GL_PROJECTION)
                  = ProjectionMatrix(last.args.width, last.args.height)
             /\ CurrentMatrix(gl.drawn[i], GL_MODELVIEW) = ModelviewMatrix
        /\ gl.drawFramebuffer = 0
        /\ \A mode \in MatrixModes : Depth(gl, mode) = Depth(last.pre, mode)
        /\ gl.stack = last.pre.stack

\* C16's case: a call that had to replace the frame buffer has returned
\* the image.
C16_Witness ==
  /\ last.op = "render_to_image"
  /\ ~last.raised
  /\ last.out.events = <<"terminate", "construct">>
  /\ Count(gl.calls, "glReadPixels") = 1
  /\ last.pre.drawFramebuffer = 0

\* C17: after the __exit__ of a texture context, the 2-D texture binding
\* and the enable flag of 2-D texturing are what they were before its
\* __enter__, whichever texture was bound then.
C17_TextureContextRestores ==
  (last.op = "__exit__" /\ last.args.kind = "texture") =>
    /\ gl.texture = last.out.entry.texture
    /\ IsEnabled(gl, GL_TEXTURE_2D) <=> IsEnabled(last.out.entry, GL_TEXTURE_2D)

\* C18: after the __enter__ of a lighting context, lighting and colour
\* material are enabled and the light slots it has enabled are the keys of
\* its mapping that lie in 0..7, other keys being ignored; after its
\* __exit__ the enable flags and the lights are what they were before the
\* __enter__.
C18_LightingContext ==
  /\ (last.op = "__enter__" /\ last.args.kind = "lighting" /\ ~last.raised) =>
       LET keys == DOMAIN last.args.arg \cap LightSlots IN
       /\ IsEnabled(gl, GL_LIGHTING)
       /\ IsEnabled(gl, GL_COLOR_MATERIAL)
       /\ Count(gl.calls, "glEnable") = 2 + Cardinality(keys)
       /\ gl.enabled \cap LightCaps
            = (last.pre.enabled \cap LightCaps) \cup {GL_LIGHT(i) : i \in keys}
  /\ (last.op = "__exit__" /\ last.args.kind = "lighting") =>
       /\ gl.enabled = last.out.entry.enabled
       /\ gl.light = last.out.entry.light

\* np.round of n/4 for n >= 0, stated by cases: the nearest integer, and
\* the even one of the two when n/4 lies half way.
RoundedQuarter(n) ==
  CASE n % 4 = 0 -> n \div 4
    [] n % 4 = 1 -> n \div 4
    [] n % 4 = 3 -> n \div 4 + 1
    [] n % 4 = 2 -> IF (n \div 4) % 2 = 0 THEN n \div 4 ELSE n \div 4 + 1

\* C19 as stated: set_viewport applies one rectangle to the viewport and to
\* the scissor box and enables the scissor test; the corners (0,0) and
\* (1,1) give (0, 0, W, H); the corners (0.25,0.25) and (0.75,0.75) give a
\* centred rectangle of width 0.5 W and height 0.5 H with y = round(0.25 H).
C19_Viewport ==
  last.op = "set_viewport" =>
    LET W == last.args.window_size[1]
        H == last.args.window_size[2]
        x == gl.viewport[1]
        y == gl.viewport[2]
        width == gl.viewport[3]
        height == gl.viewport[4]
    IN  /\ gl.scissorBox = gl.viewport
        /\ IsEnabled(gl, GL_SCISSOR_TEST)
        /\ (last.args.top_left = <<0, 0>> /\ last.args.bottom_right = <<4, 4>>) =>
             gl.viewport = <<0, 0, W, H>>
        /\ (last.args.top_left = <<1, 1>> /\ last.args.bottom_right = <<3, 3>>) =>
             /\ 2 * width = W
             /\ 2 * height = H
             /\ 2 * x + width = W
             /\ 2 * y + height = H
             /\ y = RoundedQuarter(H)

\* C19, amended: the rectangle is in whole pixels.  With the corners
\* (0.25,0.25) and (0.75,0.75) its width and height are W/2 and H/2 with
\* the fraction dropped, and its x and y are W/4 and H/4 rounded to the
\* nearest integer, a tie going to the even one; it is the centred
\* rectangle of half the window's size when W and H are multiples of 4.
C19_ViewportPixels ==
  last.op = "set_viewport" =>
    LET W == last.args.window_size[1]
        H == last.args.window_size[2]
    IN  /\ gl.scissorBox = gl.viewport
        /\ IsEnabled(gl, GL_SCISSOR_TEST)
        /\ (last.args.top_left = <<0, 0>> /\ last.args.bottom_right = <<4, 4>>) =>
             gl.viewport = <<0, 0, W, H>>
        /\ (last.args.top_left = <<1, 1>> /\ last.args.bottom_right = <<3, 3>>) =>
             /\ gl.viewport = <<RoundedQuarter(W), RoundedQuarter(H), W \div 2, H \div 2>>
             /\ (W % 4 = 0 /\ H % 4 = 0) =>
                  /\ 2 * gl.viewport[3] = W
                  /\ 2 * gl.viewport[4] = H
                  /\ 2 * gl.viewport[1] + gl.viewport[3] = W
                  /\ 2 * gl.viewport[2] + gl.viewport[4] = H

\* C19's case: the middle half of a window of 2 by 3 pixels.
C19_Witness ==
  /\ last.op = "set_viewport"
  /\ last.args.top_left = <<1, 1>>
  /\ last.args.bottom_right = <<3, 3>>
  /\ last.args.window_size = <<2, 3>>
  /\ gl.viewport = <<0, 1, 1, 1>>
  /\ last.pre.viewport # <<0, 0, 0, 0>>

\* C20: set_projection_matrix replaces the current matrix, whatever it
\* was, by the frustum with near = 0.1, far = 1000.0,
\* left = -cx near / fx, right = (width - cx) near / fx,
\* bottom = -cy near / fy and top = (height - cy) near / fy, and changes
\* nothing else: the matrix depends on the arguments only.  (The planes
\* are in units of near / FocalScale, near and far in tenths.)
C20_ProjectionMatrix ==
  last.op = "set_projection_matrix" =>
    LET fx == last.args.intrinsics[1]
        fy == last.args.intrinsics[2]
        cx == last.args.intrinsics[3]
        cy == last.args.intrinsics[4]
        f == last.out.frustum
    IN  /\ gl.calls = <<"glLoadIdentity", "glFrustum">>
        /\ f.left * fx = -cx * FocalScale
        /\ f.right * fx = (last.args.width - cx) * FocalScale
        /\ f.bottom * fy = -cy * FocalScale
        /\ f.top * fy = (last.args.height - cy) * FocalScale
        /\ f.near = 1
        /\ f.far = 10000
        /\ State(gl) =
             [last.pre EXCEPT !.stack[last.pre.matrixMode] =
                Append(Pop(@), FrustumMatrix(f))]

\* C20's case: the frustum replaced a matrix other than the identity.
C20_Witness ==
  /\ last.op = "set_projection_matrix"
  /\ CurrentMatrix(last.pre, last.pre.matrixMode) \in 1 .. MaxMat
  /\ CurrentMatrix(gl, gl.matrixMode) >= FrustumBase
  /\ last.args.intrinsics[3] # 0

\* C22: render_cylinder issues no graphics call when the distance between
\* the centres is below 0.001.  Otherwise it pushes the model-view matrix
\* once, multiplies it by the frame of the cylinder, draws the side and
\* the base disk, moves along z by the length of the axis, draws the top
\* disk, moves back by the same length and pops once: when the call is
\* left, the model-view stack, its current matrix included, is what it
\* was before the call.
C22_RenderCylinder ==
  last.op = "render_cylinder" =>
    LET n == last.args.axis_norm
        before == last.pre.stack[GL_MODELVIEW]
        framed == Append(before, Product(Top(before), FrameMatrix))
    IN  /\ n < 10 =>
             /\ ~last.raised
             /\ gl.calls = <<>>
             /\ gl.drawn = <<>>
             /\ State(gl) = last.pre
        /\ (n >= 10 /\ ~last.raised) =>
             /\ gl.calls =
                  (IF last.args.quadric = NoQuadric THEN <<"gluNewQuadric">> ELSE <<>>) \o
                  <<"glMatrixMode", "glPushMatrix", "glMultMatrixf", "gluCylinder",
                    "gluDisk", "glTranslatef", "gluDisk", "glTranslatef", "glPopMatrix",
                    "gluDeleteQuadric">>
             /\ Len(gl.drawn) = 3
             /\ gl.drawn[1].stack[GL_MODELVIEW] = framed
             /\ gl.drawn[2].stack[GL_MODELVIEW] = framed
             /\ Pop(gl.drawn[3].stack[GL_MODELVIEW]) = before
             /\ Top(gl.drawn[3].stack[GL_MODELVIEW]) = Top(framed) + n * ZUnit
        /\ n >= 10 =>
             /\ Count(gl.calls, "glPushMatrix") = 1
             /\ Count(gl.calls, "glPopMatrix") = 1
             /\ gl.stack = last.pre.stack

\* C22's case: a cylinder whose axis is 0.001 long was drawn with a
\* model-view matrix other than the identity.
C22_Witness ==
  /\ last.op = "render_cylinder"
  /\ last.args.axis_norm = 10
  /\ ~last.raised
  /\ Len(gl.drawn) = 3
  /\ CurrentMatrix(last.pre, GL_MODELVIEW) # Identity
  /\ CurrentMatrix(gl, GL_MODELVIEW) = CurrentMatrix(last.pre, GL_MODELVIEW)

\* C23: the frame buffer a render_to_image call binds as render target is
\* alive: terminate() has not run on it.
C23_BoundFrameBufferAlive ==
  (last.op = "render_to_image" /\ last.out.bound # None) =>
    /\ last.out.bound.alive
    /\ \A i \in DOMAIN gl.drawn : gl.drawn[i].drawFramebuffer = last.out.bound.id

\* C25: when the constructor of a frame buffer finishes, by returning or
\* by raising, the default render target (0) is current.
C25_ConstructorLeavesDefaultTarget ==
  (last.op = "owned.__init__" /\ last.args.class = FrameBuffer) =>
    gl.drawFramebuffer = 0

\* C26: terminate() on an alive frame buffer attempts the delete of its
\* depth renderbuffer, of its colour texture and of its frame buffer
\* object, also when one of the deletes raises.
C26_TerminateAttemptsAll ==
  (/\ last.op = "owned.terminate"
   /\ last.args.object.class = FrameBuffer
   /\ last.args.object.self.alive) =>
    Attempted(last.args.object, last.args.err, gl.calls)
      = {"glDeleteRenderbuffers", "glDeleteTextures", "glDeleteFramebuffers"}

C21_ReadBgrImageRows ==
  last.op = "read_bgr_image" =>
    LET w == last.args.width
        h == last.args.height
        image == last.out.image
        native(r, c, k) == last.args.buffer[(r * w + c) * 3 + k + 1]
        again == [r \in 1 .. h |-> image[h + 1 - r]]
    IN  /\ DOMAIN image = 1 .. h
        /\ \A r \in 1 .. h :
             /\ DOMAIN image[r] = 1 .. w
             /\ \A c \in 1 .. w : DOMAIN image[r][c] = 1 .. 3
        /\ \A r \in 0 .. h - 1, c \in 0 .. w - 1, k \in 0 .. 2 :
             /\ image[r + 1][c + 1][k + 1] = native(h - 1 - r, c, k)
             /\ again[r + 1][c + 1][k + 1] = native(r, c, k)
        /\ Count(gl.calls, "glReadPixels") = 1

\* C21's case: an image of two rows of two pixels, whose first row is the
\* second half of the buffer read.
C21_Witness ==
  /\ last.op = "read_bgr_image"
  /\ last.args.width = 2
  /\ last.args.height = 2
  /\ last.out.image[1][1][1] = last.args.buffer[7]
  /\ last.out.image[2][2][3] = last.args.buffer[6]
  /\ last.args.buffer[7] # last.args.buffer[1]

\* C24: a live quadric the caller passes to render_sphere or
\* render_cylinder is live when the call returns, the call having deleted
\* no quadric; a call that is passed none deletes the quadric it created.
C24_CallerQuadricLive ==
  (last.op \in {"render_sphere", "render_cylinder"} /\ ~last.raised) =>
    /\ (last.args.quadric # NoQuadric /\ last.args.quadric \in last.pre.quadricNames) =>
         /\ last.args.quadric \in gl.quadricNames
         /\ "gluDeleteQuadric" \notin Range(gl.calls)
    /\ last.args.quadric = NoQuadric =>
         /\ gl.quadricNames = last.pre.quadricNames
         /\ Count(gl.calls, "gluNewQuadric") = Count(gl.calls, "gluDeleteQuadric")

====
